---- MODULE Spec2Model ----
(***************************************************************************)
(* State-machine model of the getitdone-api core orchestrator:             *)
(*   session/prompt.py     SessionPrompt (prompt, _agentic_loop,           *)
(*                         _single_turn, _execute_tool, cancel, resume)    *)
(*   session/processor.py  SessionProcessor, DoomLoopDetector              *)
(*   tool/question.py      ask_questions, reply_to_question,               *)
(*                         reject_question                                 *)
(*   agent/agent.py        is_tool_allowed                                 *)
(* One session is modelled; several prompt()/resume() generators (calls)   *)
(* may run against it.  A call advances from one suspension point (yield   *)
(* to the consumer, wait on the question future) to the next in one step.  *)
(***************************************************************************)
EXTENDS Integers, Sequences, FiniteSets, TLC

\* ---------------------------------------------------------------- bounds
\* provider streams opened in one behaviour
MaxStreams == 2
\* non-terminal provider chunks delivered in one behaviour
MaxChunks == 2
\* calls recorded by the stand-alone detector of SpecDetector
MaxRecords == 4
\* entries of an agent's permission list in SpecPermissions
MaxPermissions == 3
\* events of one backend stream in SpecAdapters
MaxBackend == 3
\* callbacks that subscribe to the Bus in SpecBus
MaxHandlers == 2
\* Bus.publish calls in one behaviour of SpecBus
MaxPublishes == 2
\* milliseconds the clock advances in SpecIdentifier
MaxClock == 2
\* identifiers minted in one behaviour of SpecIdentifier
MaxMinted == 3
\* Message, Session and todo operations in one behaviour of SpecStore
MaxOps == 3
\* messages in the log of a session in SpecCompaction
MaxLog == 5
\* tool_result parts in that log
MaxParts == 3
\* messages and parts of the list count_messages gets in SpecTokens
MaxCounted == 3

\* ------------------------------------------------------ program constants
DefaultMaxSteps == 50
DoomThreshold == 3
MaxTodoReminders == 2

\* the generators (prompt() or resume() calls) of one behaviour
Calls == {1, 2}

\* a prompt of another session that asks a question through the same
\* module-level table
OtherSession == 3
Askers == Calls \cup {OtherSession}

\* values a caller passes as PromptInput.max_steps
MaxStepsInputs == {1, 10}
\* PromptInput.content of a prompt() call
Contents == {"hi"}
\* text deltas a provider stream can carry
TextTokens == {"a"}
\* tools the provider may name; "nope" is not registered
RegisteredTools == {"ls", "question"}
ProviderToolCalls ==
  { <<"ls", "A">>, <<"ls", "B">>, <<"question", "A">>, <<"nope", "A">> }
Answers == {"Y", "N"}
StopReasons == {"end_turn", "tool_calls"}

\* agents the session may be bound to: permission list and pause_on_question
BuildAgent ==
  [permissions |-> <<[tool_name |-> "*", action |-> "allow"],
                     [tool_name |-> "question", action |-> "allow"]>>,
   pause_on_question |-> TRUE]
StrictAgent ==
  [permissions |-> <<[tool_name |-> "ls", action |-> "deny"],
                     [tool_name |-> "*", action |-> "allow"],
                     [tool_name |-> "nope", action |-> "deny"]>>,
   pause_on_question |-> TRUE]
QuietAgent == [permissions |-> <<>>, pause_on_question |-> FALSE]

\* The environments explored.  Each bounds what the clients and the provider
\* do in one behaviour: which calls are made, how many streams and chunks
\* the provider serves, which chunks and tool calls it emits.
Profile(name, kinds, concurrent, cancel, others, streams, chunks, tools, texts, errors, stops, steps, agents, todos) ==
  [name |-> name, kinds |-> kinds, concurrent |-> concurrent,
   cancel |-> cancel, others |-> others, streams |-> streams,
   chunks |-> chunks,
   tools |-> tools, texts |-> texts, errors |-> errors, stops |-> stops,
   steps |-> steps, agents |-> agents, todos |-> todos, provider |-> TRUE]

\* one loop-mode or single-turn prompt of the build agent: text, tools that
\* run, raise or are not registered, error chunks
ToolsProfile ==
  Profile("tools", << {"loop", "single"}, {} >>, FALSE, FALSE, FALSE,
          MaxStreams, MaxChunks,
          {<<"ls", "A">>, <<"ls", "B">>, <<"nope", "A">>}, TextTokens, TRUE,
          StopReasons, MaxStepsInputs, {BuildAgent}, {FALSE})
\* one prompt that may ask questions and may be cancelled, for an agent
\* that pauses on a question and one that does not
CancelProfile ==
  Profile("cancel", << {"loop", "single"}, {} >>, FALSE, TRUE, FALSE,
          MaxStreams, MaxChunks, {<<"ls", "A">>, <<"question", "A">>}, {},
          FALSE, StopReasons, {10}, {BuildAgent, QuietAgent},
          {FALSE})
\* agents that deny tools or do not pause on a question
AgentsProfile ==
  Profile("agents", << {"loop", "single"}, {} >>, FALSE, FALSE, FALSE,
          MaxStreams, MaxChunks, ProviderToolCalls, {}, FALSE,
          {"tool_calls"}, {10}, {StrictAgent, QuietAgent}, {FALSE})
\* one loop-mode prompt on a session that may have pending todos
TodosProfile ==
  Profile("todos", << {"loop"}, {} >>, FALSE, FALSE, FALSE,
          MaxStreams + 2, MaxChunks - 1, {<<"ls", "A">>}, TextTokens, FALSE,
          StopReasons, MaxStepsInputs, {BuildAgent}, BOOLEAN)
\* one loop-mode prompt whose provider keeps calling ls or a tool that is
\* not registered
DoomProfile ==
  Profile("doom", << {"loop"}, {} >>, FALSE, FALSE, FALSE,
          DoomThreshold + MaxStreams - 1, DoomThreshold + MaxChunks - 1,
          {<<"ls", "A">>, <<"nope", "A">>}, {}, FALSE, {"tool_calls"}, {10},
          {BuildAgent}, {FALSE})
\* a single-turn prompt and then a loop-mode prompt
SequenceProfile ==
  Profile("sequence", << {"single"}, {"loop"} >>, FALSE, FALSE, FALSE,
          MaxStreams + 1, MaxChunks - 1, {<<"ls", "A">>}, {}, FALSE,
          StopReasons, {1}, {BuildAgent}, {FALSE})
\* two prompts sent without waiting
ConcurrentProfile ==
  Profile("concurrent", << {"loop", "single"}, {"loop", "single"} >>, TRUE,
          FALSE, FALSE, MaxStreams, MaxChunks - 1, {<<"ls", "A">>}, {}, FALSE,
          StopReasons, {1}, {BuildAgent}, {FALSE})
\* a loop-mode prompt that asks a question, and a resume() call
ResumeProfile ==
  Profile("resume", << {"loop"}, {"resume"} >>, TRUE, TRUE, FALSE,
          MaxStreams, MaxChunks - 1, {<<"question", "A">>}, {}, FALSE,
          StopReasons, {10}, {BuildAgent}, {FALSE})

\* a prompt that asks a question while another session asks one too
SessionsProfile ==
  Profile("sessions", << {"single"}, {} >>, FALSE, FALSE, TRUE,
          MaxStreams - 1, MaxChunks - 1, {<<"question", "A">>}, {}, FALSE,
          {"tool_calls"}, {10}, {BuildAgent}, {FALSE})

\* a single-turn prompt whose provider sends text around a tool call
TextProfile ==
  Profile("text", << {"single"}, {} >>, FALSE, FALSE, FALSE,
          MaxStreams - 1, MaxChunks + 1, {<<"ls", "A">>}, TextTokens, FALSE,
          {"end_turn"}, {10}, {BuildAgent}, {FALSE})

\* a prompt that names a provider no adapter is registered for, on a
\* session that may have pending todos
MissingProfile ==
  [Profile("missing", << {"loop", "single"}, {} >>, FALSE, FALSE, FALSE,
           MaxStreams, MaxChunks, {}, {}, FALSE, StopReasons, {10},
           {BuildAgent}, BOOLEAN) EXCEPT !.provider = FALSE]

Profiles == { ToolsProfile, CancelProfile, AgentsProfile, TodosProfile,
              DoomProfile, SequenceProfile, ConcurrentProfile,
              ResumeProfile, SessionsProfile, TextProfile, MissingProfile }

VARIABLES
  call,               \* per generator: kind, position and locals
  states,             \* LoopState objects, one per loop-mode call
  loop_states,        \* SessionPrompt._loop_states[session] (0 = absent)
  procs,              \* SessionProcessor objects ever created
  processors,         \* SessionProcessor._processors[session] (0 = absent)
  messages,           \* message log of the session
  bus,                \* events published on the Bus, tagged with the call
  out,                \* chunks each generator handed to its consumer
  pending_questions,  \* _pending_questions: request id -> future
  futures,            \* the asyncio.Future of each call's ask_questions
  todos,              \* storage todo/{session} has a pending entry
  agent,              \* agent bound to the session
  nStreams, nChunks,  \* provider streams / chunks used so far
  cancelled,          \* calls whose LoopState cancel() has marked
  env,                \* what the clients and the provider may do
  otherPc,            \* ask_questions of a prompt of another session
  permission,         \* last is_tool_allowed(agent, tool_name) and its result
  adapter,            \* a provider adapter, its backend and what it yielded
  det, lastRecord,    \* stand-alone DoomLoopDetector and its last result
  pubsub,             \* the Bus: subscriber tables, lock, publishes in progress
  store,              \* the clock, the identifiers minted, Storage._data
  compaction          \* a session's message log and the last prune or compact

vars == << call, states, loop_states, procs, processors, messages, bus, out,
           pending_questions, futures, todos, agent, nStreams, nChunks,
           cancelled, env, otherPc, permission, adapter, det,
           lastRecord, pubsub, store, compaction >>

orchVars == << call, states, loop_states, procs, processors, messages, bus,
               out, pending_questions, futures, todos, agent, nStreams,
               nChunks, cancelled, env, otherPc, permission, adapter,
               pubsub, store, compaction >>
detVars == << det, lastRecord >>

NoTc == [id |-> <<"none", 0>>, name |-> "none", args |-> "none"]

\* request ids of the question channel: the tool_call_id of a question call,
\* minted per stream as call_{name}_{index} (provider/gemini.py)
QuestionIds == { <<"question", i>> : i \in 0..MaxChunks }

\* ------------------------------------------------------------- agent.py
NoPermission == [tool_name |-> "none", result |-> "none"]

NoAdapter ==
  [name |-> "none", thinking |-> FALSE, script |-> <<>>, retry |-> <<>>,
   chunks |-> <<>>, raised |-> "none", streamed |-> FALSE]

\* the for loop of is_tool_allowed from entry i on, result being the value
\* the loop variable holds so far
RECURSIVE scan_permissions(_, _, _, _)
scan_permissions(P, i, tool_name, result) ==
  IF i > Len(P) THEN result
  ELSE scan_permissions(P, i + 1, tool_name,
         IF P[i].tool_name = "*" \/ P[i].tool_name = tool_name
         THEN P[i].action
         ELSE result)

is_tool_allowed_first(ag, tool_name) ==
  LET P == ag.permissions
      M == { i \in 1..Len(P) :
               P[i].tool_name = "*" \/ P[i].tool_name = tool_name }
  IN IF M = {} THEN "allow"
     ELSE P[CHOOSE i \in M : \A j \in M : i <= j].action

is_tool_allowed(ag, tool_name) ==
  scan_permissions(ag.permissions, 1, tool_name, "allow")

\* --------------------------------------------------------- processor.py
\* md5(json.dumps(args or {}, sort_keys=True))[:8]; None and {} coincide
ArgsHash(args) ==
  CASE args = "none"  -> "h0"
    [] args = "empty" -> "h0"
    [] args = "A"     -> "hA"
    [] args = "B"     -> "hB"

Signature(tool_name, args) == << tool_name, ArgsHash(args) >>

LastN(h, n) == SubSeq(h, Len(h) - n + 1, Len(h))
SeqRange(s) == { s[i] : i \in 1..Len(s) }

\* DoomLoopDetector.record: the history after the call and the result
DetectorHistory(history, tool_name, args) ==
  Append(history, Signature(tool_name, args))

DetectorResult_names(history, tool_name, args) ==
  LET h == DetectorHistory(history, tool_name, args)
  IN Len(h) >= DoomThreshold
     /\ Cardinality({ s[1] : s \in SeqRange(LastN(h, DoomThreshold)) }) = 1

DetectorResult(history, tool_name, args) ==
  LET h == DetectorHistory(history, tool_name, args)
  IN Len(h) >= DoomThreshold
     /\ Cardinality(SeqRange(LastN(h, DoomThreshold))) = 1

NewProcessor(max_steps) ==
  [max_steps |-> max_steps, steps |-> <<>>, history |-> <<>>,
   current_step |-> 0, aborted |-> FALSE]

is_doom_loop_late(p) ==
  Len(p.history) > DoomThreshold
  /\ Cardinality(SeqRange(LastN(p.history, DoomThreshold + 1))) = 1

is_doom_loop(p) ==
  Len(p.history) >= DoomThreshold
  /\ Cardinality(SeqRange(LastN(p.history, DoomThreshold))) = 1

should_continue(p) ==
  IF p.aborted THEN FALSE
  ELSE IF Len(p.steps) >= p.max_steps THEN FALSE
  ELSE IF is_doom_loop(p) THEN FALSE
  ELSE TRUE

start_step(p) ==
  [p EXCEPT !.steps = Append(@, [status |-> "running", tool_calls |-> <<>>]),
            !.current_step = Len(p.steps) + 1]

finish_step(p, status) ==
  IF p.current_step # 0
  THEN [p EXCEPT !.steps[p.current_step].status = status]
  ELSE p

record_tool_call(p, tool_name, args) ==
  LET q == IF p.current_step # 0
           THEN [p EXCEPT !.steps[p.current_step].tool_calls =
                            Append(@, tool_name)]
           ELSE p
  IN [q EXCEPT !.history = DetectorHistory(p.history, tool_name, args)]

\* ------------------------------------------------------------ prompt.py
NewLoopState_three(max_steps) ==
  [step |-> 0, max_steps |-> max_steps, auto_continue |-> TRUE,
   stop_reason |-> "none", paused |-> FALSE, pause_reason |-> "none",
   todo_reminder_count |-> 0, max_todo_reminders |-> MaxTodoReminders + 1,
   pending_reminder |-> FALSE]

NewLoopState(max_steps) ==
  [step |-> 0, max_steps |-> max_steps, auto_continue |-> TRUE,
   stop_reason |-> "none", paused |-> FALSE, pause_reason |-> "none",
   todo_reminder_count |-> 0, max_todo_reminders |-> MaxTodoReminders,
   pending_reminder |-> FALSE]

IdleCall ==
  [kind |-> "none", pc |-> "idle", max_steps |-> 0, content |-> "",
   is_continuation |-> FALSE, msg |-> 0, tc |-> NoTc, tool_part |-> 0,
   text_part |-> 0, ntc |-> 0, state |-> 0, proc |-> 0, result |-> "none",
   seen_reason |-> "none", turns |-> 0, streams |-> 0]

NoFuture == [state |-> "none", value |-> "none", rid |-> <<"none", 0>>]

\* nothing minted and nothing stored yet, at millisecond 0
NewStore == [clock |-> 0, minted |-> <<>>, data |-> <<>>, log |-> <<>>, ops |-> 0]

\* what prune and compact return when they return None
None == [type |-> "None"]

\* a session without messages whose Message.list returns the list, before
\* any prune or compact
NewCompaction ==
  [messages |-> <<>>, returns |-> "list", op |-> "none", provider |-> "none",
   result |-> None]

\* the tasks that call Bus.publish, the callbacks and the event types
Publishers == {1, 2}
Handlers == 1 .. MaxHandlers
EventTypes == {"step.started", "step.finished"}
\* a callback returns, raises, or is a coroutine that suspends
HandlerKinds == {"return", "raise", "await"}

NoHandler == [kind |-> "none", topic |-> "none", live |-> FALSE]

IdlePublish ==
  [pc |-> "idle", type |-> "none", next |-> 0, seq |-> 0, awaiting |-> 0,
   expected |-> {}]

\* the class attributes of Bus before anything subscribed
NewBus ==
  [subscribers |-> [t \in EventTypes |-> <<>>], all_subscribers |-> <<>>,
   lock |-> 0, publish |-> [p \in Publishers |-> IdlePublish],
   handlers |-> [h \in Handlers |-> NoHandler], log |-> <<>>,
   finished |-> <<>>]

Init ==
  /\ call = [c \in Calls |-> IdleCall]
  /\ states = [c \in Calls |-> NewLoopState(0)]
  /\ loop_states = 0
  /\ procs = <<>>
  /\ processors = 0
  /\ messages = <<>>
  /\ bus = <<>>
  /\ out = [c \in Calls |-> <<>>]
  /\ pending_questions = [r \in QuestionIds |-> 0]
  /\ futures = [a \in Askers |-> NoFuture]
  /\ env \in Profiles
  /\ todos \in env.todos
  /\ agent \in env.agents
  /\ nStreams = 0
  /\ nChunks = 0
  /\ cancelled = {}
  /\ otherPc = "idle"
  /\ permission = NoPermission
  /\ adapter = NoAdapter
  /\ pubsub = NewBus
  /\ store = NewStore
  /\ compaction = NewCompaction
  /\ det = <<>>
  /\ lastRecord = FALSE


\* ----------------------------------------------------- chunks and events
Chunk(type, src, name, args, stop, text) ==
  [type |-> type, src |-> src, name |-> name, args |-> args,
   stop |-> stop, text |-> text]

TextChunk(src, text) == Chunk("text", src, "none", "none", "none", text)
ToolCallChunk_as_text(tc) == Chunk("text", "provider", "none", "none", "none", "")
ToolCallChunk(tc) == Chunk("tool_call", "provider", tc.name, tc.args, "none", "")
ToolResultChunk(text) == Chunk("tool_result", "turn", "none", "none", "none", text)
DoneChunk(stop) == Chunk("done", "provider", "none", "none", stop, "")
ErrorChunk(src, text) == Chunk("error", src, "none", "none", "none", text)
StepChunk == Chunk("step", "loop", "none", "none", "none", "step")

Event(type, c, status, part) ==
  [type |-> type, call |-> c, status |-> status, part |-> part]

\* ------------------------------------------------------------ message.py
UserMessage(c, content) ==
  [role |-> "user", content |-> content, parts |-> <<>>, error |-> FALSE,
   call |-> c]

AssistantMessage(c) ==
  [role |-> "assistant", content |-> "", parts |-> <<>>, error |-> FALSE,
   call |-> c]

Part(type, tool_call_id, tool_name, tool_status, content) ==
  [type |-> type, tool_call_id |-> tool_call_id, tool_name |-> tool_name,
   tool_status |-> tool_status, content |-> content]

add_part(msgs, m, part) == [msgs EXCEPT ![m].parts = Append(@, part)]

update_part_status_all(msgs, m, i, status) ==
  [msgs EXCEPT ![m].parts =
     [j \in DOMAIN @ |->
        IF @[j].type = "tool_call" THEN [@[j] EXCEPT !.tool_status = status]
        ELSE @[j]]]

update_part_status(msgs, m, i, status) ==
  [msgs EXCEPT ![m].parts[i].tool_status = status]

update_part_content(msgs, m, i, content) ==
  [msgs EXCEPT ![m].parts[i].content = content]

\* ------------------------------------------- SessionPrompt._single_turn
TurnMessages_continued(c, content, is_continuation) ==
  Append(messages, AssistantMessage(c))

\* lines 245-297: the messages created when a turn starts
TurnMessages(c, content, is_continuation) ==
  LET withUser == IF content # "" /\ ~is_continuation
                  THEN Append(messages, UserMessage(c, content))
                  ELSE messages
  IN Append(withUser, AssistantMessage(c))

\* the locals of a call whose turn has just opened its provider stream
TurnLocals(cl, content, is_continuation, msgs) ==
  [cl EXCEPT !.pc = "stream", !.content = content,
             !.is_continuation = is_continuation, !.msg = Len(msgs),
             !.tc = NoTc, !.tool_part = 0, !.text_part = 0, !.ntc = 0,
             !.turns = @ + 1, !.streams = @ + 1]

\* lines 260-264: no adapter is registered for the provider; the turn yields
\* one error chunk and returns before any message is created
ProviderNotFound == ErrorChunk("turn", "provider_not_found")
TurnFailed(cl) == [cl EXCEPT !.pc = "turn_end", !.turns = @ + 1]

\* --------------------------------------------------- SessionPrompt.prompt
Prompt(c) ==
  /\ call[c].pc = "idle"
  /\ \A d \in Calls : d < c => call[d].pc # "idle"
  /\ env.concurrent \/ \A d \in Calls : call[d].pc \in {"idle", "done"}
  /\ \E auto_continue \in BOOLEAN, max_steps \in env.steps,
        content \in Contents :
       /\ (IF auto_continue THEN "loop" ELSE "single") \in env.kinds[c]
       /\ IF auto_continue
          THEN \* _agentic_loop, lines 92-96
               LET create == processors = 0
                   ps == IF create
                         THEN Append(procs, NewProcessor(max_steps))
                         ELSE procs
                   ref == IF create THEN Len(ps) ELSE processors
               IN /\ states' = [states EXCEPT ![c] = NewLoopState(max_steps)]
                  /\ loop_states' = c
                  /\ procs' = ps
                  /\ processors' = ref
                  /\ call' = [call EXCEPT ![c] =
                                [@ EXCEPT !.kind = "loop", !.pc = "head",
                                          !.max_steps = max_steps,
                                          !.content = content,
                                          !.state = c, !.proc = ref]]
          ELSE /\ call' = [call EXCEPT ![c] =
                             [@ EXCEPT !.kind = "single", !.pc = "head",
                                       !.max_steps = max_steps,
                                       !.content = content]]
               /\ UNCHANGED << states, loop_states, procs, processors >>
  /\ UNCHANGED << messages, bus, out, pending_questions, futures, todos,
                  agent, nStreams, nChunks, cancelled >>
  /\ UNCHANGED << env, otherPc, permission, adapter, det, lastRecord, pubsub, store, compaction >>

\* prompt() with auto_continue false: one _single_turn (lines 79-81)
SingleHead(c) ==
  /\ call[c].kind = "single" /\ call[c].pc = "head"
  /\ IF env.provider
     THEN /\ nStreams < env.streams
          /\ LET msgs == TurnMessages(c, call[c].content, FALSE)
             IN /\ messages' = msgs
                /\ call' = [call EXCEPT ![c] =
                              TurnLocals(@, call[c].content, FALSE, msgs)]
          /\ nStreams' = nStreams + 1
          /\ UNCHANGED out
     ELSE /\ out' = [out EXCEPT ![c] = Append(@, ProviderNotFound)]
          /\ call' = [call EXCEPT ![c] = TurnFailed(@)]
          /\ UNCHANGED << messages, nStreams >>
  /\ UNCHANGED << states, loop_states, procs, processors, bus,
                  pending_questions, futures, todos, agent, nChunks,
                  cancelled >>
  /\ UNCHANGED << env, otherPc, permission, adapter, det, lastRecord, pubsub, store, compaction >>

\* _agentic_loop, lines 99-150: the while test and the start of a step
LoopHead(c) ==
  /\ call[c].kind = "loop" /\ call[c].pc = "head"
  /\ LET p == procs[call[c].proc]
         st == states[c]
     IN IF should_continue(p) /\ ~st.paused
        THEN LET step == st.step + 1
                 content == IF step = 1 THEN call[c].content
                            ELSE IF st.pending_reminder THEN "reminder"
                            ELSE ""
                 is_reminder_turn == content # "" /\ step > 1
                 is_continuation == step > 1 /\ ~is_reminder_turn
                 msgs == TurnMessages(c, content, is_continuation)
                 stepped == IF step > 1 THEN Append(out[c], StepChunk)
                            ELSE out[c]
             IN /\ env.provider => nStreams < env.streams
                /\ states' = [states EXCEPT ![c] =
                     [@ EXCEPT !.step = step,
                               !.pending_reminder =
                                  IF step = 1 THEN @ ELSE FALSE]]
                /\ procs' = [procs EXCEPT ![call[c].proc] = start_step(p)]
                /\ bus' = Append(bus, Event("step.started", c, "none", <<0, 0>>))
                /\ IF env.provider
                   THEN /\ out' = [out EXCEPT ![c] = stepped]
                        /\ messages' = msgs
                        /\ call' = [call EXCEPT ![c] =
                               TurnLocals(@, content, is_continuation, msgs)]
                        /\ nStreams' = nStreams + 1
                   ELSE /\ out' = [out EXCEPT ![c] =
                                     Append(stepped, ProviderNotFound)]
                        /\ call' = [call EXCEPT ![c] = TurnFailed(@)]
                        /\ UNCHANGED << messages, nStreams >>
        ELSE /\ call' = [call EXCEPT ![c].pc = "exit"]
             /\ UNCHANGED << states, procs, bus, out, messages, nStreams >>
  /\ UNCHANGED << loop_states, processors, pending_questions, futures, todos,
                  agent, nChunks, cancelled >>
  /\ UNCHANGED << env, otherPc, permission, adapter, det, lastRecord, pubsub, store, compaction >>

\* _agentic_loop, lines 203-214: status chunk, then the finally block
LoopExit(c) ==
  /\ call[c].kind = "loop" /\ call[c].pc = "exit"
  /\ LET st == states[c]
     IN out' = [out EXCEPT ![c] =
                  IF st.paused
                  THEN Append(@, TextChunk("loop", "paused"))
                  ELSE IF st.step >= st.max_steps
                  THEN Append(@, TextChunk("loop", "max_steps"))
                  ELSE @]
  /\ loop_states' = 0
  /\ processors' = 0
  /\ call' = [call EXCEPT ![c].pc = "done"]
  /\ UNCHANGED << states, procs, messages, bus, pending_questions, futures,
                  todos, agent, nStreams, nChunks, cancelled >>
  /\ UNCHANGED << env, otherPc, permission, adapter, det, lastRecord, pubsub, store, compaction >>

\* SessionPrompt.cancel, lines 686-702 (_active_sessions is never filled)
Cancel ==
  /\ env.cancel
  /\ loop_states # 0
  /\ states' = [states EXCEPT ![loop_states] =
                  [@ EXCEPT !.paused = TRUE, !.pause_reason = "cancelled"]]
  /\ cancelled' = cancelled \cup {loop_states}
  /\ loop_states' = 0
  /\ UNCHANGED << call, procs, processors, messages, bus, out,
                  pending_questions, futures, todos, agent, nStreams,
                  nChunks >>
  /\ UNCHANGED << env, otherPc, permission, adapter, det, lastRecord, pubsub, store, compaction >>


\* the loop-level code that runs after a chunk was yielded:
\* _agentic_loop lines 153-169, resume lines 733-739
ObserveToolCall(c, sts) ==
  LET k == call[c].kind
      ref == call[c].state
  IN IF k \in {"loop", "resume"} /\ call[c].tc.name = "question"
        /\ agent.pause_on_question
     THEN [sts EXCEPT ![ref] =
             [@ EXCEPT !.paused = TRUE, !.pause_reason = "question"]]
     ELSE sts

ObserveToolResult_keep(c, sts) == sts

ObserveToolResult(c, sts) ==
  LET ref == call[c].state
  IN IF call[c].kind = "loop" /\ sts[ref].paused
        /\ sts[ref].pause_reason = "question"
     THEN [sts EXCEPT ![ref] =
             [@ EXCEPT !.paused = FALSE, !.pause_reason = "none"]]
     ELSE sts

ObserveDone(c, sts, stop) ==
  IF call[c].kind \in {"loop", "resume"}
  THEN [sts EXCEPT ![call[c].state].stop_reason = stop]
  ELSE sts

\* _single_turn, lines 298-323: a text chunk
ChunkText(c) ==
  /\ call[c].pc = "stream"
  /\ nChunks < env.chunks
  /\ \E t \in env.texts :
       LET m == call[c].msg
           i == call[c].text_part
       IN /\ IF i = 0
             THEN /\ messages' = add_part(messages, m,
                                   Part("text", <<"none", 0>>, "none", "none", <<t>>))
                  /\ call' = [call EXCEPT ![c].text_part =
                                Len(messages[m].parts) + 1]
             ELSE /\ messages' = update_part_content(messages, m, i,
                                   Append(messages[m].parts[i].content, t))
                  /\ UNCHANGED call
          /\ out' = [out EXCEPT ![c] = Append(@, TextChunk("provider", t))]
  /\ nChunks' = nChunks + 1
  /\ UNCHANGED << states, loop_states, procs, processors, bus,
                  pending_questions, futures, todos, agent, nStreams,
                  cancelled >>
  /\ UNCHANGED << env, otherPc, permission, adapter, det, lastRecord, pubsub, store, compaction >>

\* _single_turn, lines 325-355: a tool_call chunk up to its yield
ChunkToolCall(c) ==
  /\ call[c].pc = "stream"
  /\ nChunks < env.chunks
  /\ \E t \in env.tools :
       LET tc == [id |-> <<t[1], call[c].ntc>>, name |-> t[1], args |-> t[2]]
           m == call[c].msg
       IN IF is_tool_allowed(agent, tc.name) = "deny"
          THEN /\ out' = [out EXCEPT ![c] =
                            Append(@, ToolResultChunk("denied"))]
               /\ call' = [call EXCEPT ![c] =
                             [@ EXCEPT !.pc = "tr_yield", !.tc = tc,
                                       !.ntc = @ + 1]]
               /\ UNCHANGED messages
          ELSE /\ messages' = add_part(messages, m,
                                Part("tool_call", tc.id, tc.name, "running",
                                     tc.args))
               /\ out' = [out EXCEPT ![c] = Append(@, ToolCallChunk(tc))]
               /\ call' = [call EXCEPT ![c] =
                             [@ EXCEPT !.pc = "tc_yield", !.tc = tc,
                                       !.ntc = @ + 1,
                                       !.tool_part =
                                          Len(messages[m].parts) + 1]]
  /\ nChunks' = nChunks + 1
  /\ UNCHANGED << states, loop_states, procs, processors, bus,
                  pending_questions, futures, todos, agent, nStreams,
                  cancelled >>
  /\ UNCHANGED << env, otherPc, permission, adapter, det, lastRecord, pubsub, store, compaction >>

\* _single_turn, lines 429-432, and the loop's note of the stop reason
ChunkDone(c) ==
  /\ call[c].pc = "stream"
  /\ \E stop \in env.stops :
       /\ out' = [out EXCEPT ![c] = Append(@, DoneChunk(stop))]
       /\ states' = ObserveDone(c, states, stop)
  /\ call' = [call EXCEPT ![c].pc = "turn_end"]
  /\ UNCHANGED << loop_states, procs, processors, messages, bus,
                  pending_questions, futures, todos, agent, nStreams,
                  nChunks, cancelled >>
  /\ UNCHANGED << env, otherPc, permission, adapter, det, lastRecord, pubsub, store, compaction >>

\* _single_turn, lines 434-436: an error chunk ends the stream
ChunkError(c) ==
  /\ call[c].pc = "stream"
  /\ env.errors
  /\ messages' = [messages EXCEPT ![call[c].msg].error = TRUE]
  /\ out' = [out EXCEPT ![c] = Append(@, ErrorChunk("provider", "error"))]
  /\ call' = [call EXCEPT ![c].pc = "turn_end"]
  /\ UNCHANGED << states, loop_states, procs, processors, bus,
                  pending_questions, futures, todos, agent, nStreams,
                  nChunks, cancelled >>
  /\ UNCHANGED << env, otherPc, permission, adapter, det, lastRecord, pubsub, store, compaction >>


\* ask_questions, line 79: the entry is in the table before question.asked
\* is published and before the first suspension
ask_register_late(pq, rid, a) == pq

ask_register(pq, rid, a) == [pq EXCEPT ![rid] = a]

\* --------------------------------------------------------- tool dispatch
\* _execute_tool persists the tool_result part (lines 606-671); _single_turn
\* then patches the tool_call part (lines 377-383)
ToolMessages_by_name(c, output, status) ==
  LET m == call[c].msg
  IN update_part_status(
       add_part(messages, m,
                Part("tool_result", <<call[c].tc.name, -1>>, "none", "none",
                     output)),
       m, call[c].tool_part, status)

ToolMessages(c, output, status) ==
  LET m == call[c].msg
  IN update_part_status(
       add_part(messages, m,
                Part("tool_result", call[c].tc.id, "none", "none", output)),
       m, call[c].tool_part, status)

ToolEvent(c, status) ==
  Event("tool.state.changed", c, status, <<call[c].msg, call[c].tool_part>>)

ToolOutcomes_completed(name) ==
  IF name \notin RegisteredTools
  THEN { <<"not_found", "error">> }
  ELSE { <<"ok", "completed">>, <<"raised", "completed">> }

ToolOutcomes(name) ==
  IF name \notin RegisteredTools
  THEN { <<"not_found", "error">> }
  ELSE { <<"ok", "completed">>, <<"raised", "error">> }

\* _single_turn lines 357-397 with _execute_tool lines 599-673, entered when
\* the consumer pulls again after the tool_call chunk; a question call stops
\* at the wait of ask_questions (tool/question.py lines 64-86)
ExecuteTool(c) ==
  /\ call[c].pc = "tc_yield"
  /\ LET tc == call[c].tc
         sts == ObserveToolCall(c, states)
         create == processors = 0
         ps == IF create
               THEN Append(procs, NewProcessor(DefaultMaxSteps))
               ELSE procs
         ref == IF create THEN Len(ps) ELSE processors
         doom == DetectorResult(ps[ref].history, tc.name, tc.args)
         running == Append(bus, ToolEvent(c, "running"))
     IN /\ states' = sts
        /\ processors' = ref
        /\ procs' = [ps EXCEPT ![ref] = record_tool_call(@, tc.name, tc.args)]
        /\ IF doom
           THEN /\ messages' = ToolMessages(c, "doom", "error")
                /\ bus' = Append(running, ToolEvent(c, "error"))
                /\ out' = [out EXCEPT ![c] = Append(@, ToolResultChunk("doom"))]
                /\ call' = [call EXCEPT ![c].pc = "tr_yield"]
                /\ UNCHANGED << pending_questions, futures >>
           ELSE IF tc.name = "question"
           THEN /\ futures' = [futures EXCEPT ![c] =
                     [state |-> "pending", value |-> "none", rid |-> tc.id]]
                /\ pending_questions' =
                     ask_register(pending_questions, tc.id, c)
                /\ bus' = Append(running,
                                 Event("question.asked", c, "none", <<0, 0>>))
                /\ call' = [call EXCEPT ![c] =
                              [@ EXCEPT !.pc = "q_wait", !.result = "none"]]
                /\ UNCHANGED << messages, out >>
           ELSE \E o \in ToolOutcomes(tc.name) :
                /\ messages' = ToolMessages(c, o[1], o[2])
                /\ bus' = Append(running, ToolEvent(c, o[2]))
                /\ out' = [out EXCEPT ![c] = Append(@, ToolResultChunk(o[1]))]
                /\ call' = [call EXCEPT ![c].pc = "tr_yield"]
                /\ UNCHANGED << pending_questions, futures >>
  /\ UNCHANGED << loop_states, todos, agent, nStreams, nChunks, cancelled >>
  /\ UNCHANGED << env, otherPc, permission, adapter, det, lastRecord, pubsub, store, compaction >>

\* -------------------------------------------------------- tool/question.py
AnswerOutput(v) == IF v = "Y" THEN "answered Y" ELSE "answered N"

\* reply_to_question, lines 101-117
reply_to_question_overwrite(rid, v) ==
  LET f == pending_questions[rid]
  IN [futures EXCEPT ![f] = [@ EXCEPT !.state = "result", !.value = v]]

reply_to_question(rid, v) ==
  LET f == pending_questions[rid]
  IN IF futures[f].state = "pending"
     THEN [futures EXCEPT ![f] = [@ EXCEPT !.state = "result", !.value = v]]
     ELSE futures

\* reject_question, lines 120-129
reject_question(rid) ==
  LET f == pending_questions[rid]
  IN IF futures[f].state = "pending"
     THEN [futures EXCEPT ![f] =
             [@ EXCEPT !.state = "exception", !.value = "rejected"]]
     ELSE futures

Reply(rid) ==
  /\ pending_questions[rid] # 0
  /\ \E v \in Answers : futures' = reply_to_question(rid, v)
  /\ UNCHANGED << call, states, loop_states, procs, processors, messages,
                  bus, out, pending_questions, todos, agent, nStreams,
                  nChunks, cancelled >>
  /\ UNCHANGED << env, otherPc, permission, adapter, det, lastRecord, pubsub, store, compaction >>

Reject(rid) ==
  /\ pending_questions[rid] # 0
  /\ futures' = reject_question(rid)
  /\ UNCHANGED << call, states, loop_states, procs, processors, messages,
                  bus, out, pending_questions, todos, agent, nStreams,
                  nChunks, cancelled >>
  /\ UNCHANGED << env, otherPc, permission, adapter, det, lastRecord, pubsub, store, compaction >>

\* the tool call of c ends with the given output: QuestionTool.execute
\* lines 280-308, _execute_tool lines 651-673, _single_turn lines 377-397
FinishQuestion(c, output, status) ==
  /\ messages' = ToolMessages(c, output, status)
  /\ bus' = Append(bus, ToolEvent(c, status))
  /\ out' = [out EXCEPT ![c] = Append(@, ToolResultChunk(output))]
  /\ call' = [call EXCEPT ![c] = [@ EXCEPT !.pc = "tr_yield",
                                           !.result = output]]

\* ask_questions, lines 86-98: the wait returns or raises once the future
\* is done; the finally block drops the key
AskWake(c) ==
  /\ call[c].pc = "q_wait"
  /\ futures[c].state \in {"result", "exception"}
  /\ pending_questions' = [pending_questions EXCEPT ![futures[c].rid] = 0]
  /\ IF futures[c].state = "result"
     THEN FinishQuestion(c, AnswerOutput(futures[c].value), "completed")
     ELSE FinishQuestion(c, "rejected", "completed")
  /\ UNCHANGED << states, loop_states, procs, processors, futures, todos,
                  agent, nStreams, nChunks, cancelled >>
  /\ UNCHANGED << env, otherPc, permission, adapter, det, lastRecord, pubsub, store, compaction >>

\* ask_questions, lines 89-92: wait_for gives up on a future nobody resolved;
\* del raises KeyError when the key is gone, which _execute_tool reports
AskTimeout(c) ==
  /\ call[c].pc = "q_wait"
  /\ futures[c].state = "pending"
  /\ futures' = [futures EXCEPT ![c].state = "cancelled"]
  /\ pending_questions' = [pending_questions EXCEPT ![futures[c].rid] = 0]
  /\ IF pending_questions[futures[c].rid] # 0
     THEN FinishQuestion(c, "timeout", "completed")
     ELSE FinishQuestion(c, "raised", "error")
  /\ UNCHANGED << states, loop_states, procs, processors, todos, agent,
                  nStreams, nChunks, cancelled >>
  /\ UNCHANGED << env, otherPc, permission, adapter, det, lastRecord, pubsub, store, compaction >>

\* ask_questions called by the question tool of a prompt of another session
\* (lines 64-82): same table, possibly the same provider-minted request id
OtherAsk(rid) ==
  /\ env.others
  /\ otherPc = "idle"
  /\ futures' = [futures EXCEPT ![OtherSession] =
                   [state |-> "pending", value |-> "none", rid |-> rid]]
  /\ pending_questions' = ask_register(pending_questions, rid, OtherSession)
  /\ bus' = Append(bus, Event("question.asked", OtherSession, "none", <<0, 0>>))
  /\ otherPc' = "q_wait"
  /\ UNCHANGED << call, states, loop_states, procs, processors, messages,
                  out, todos, agent, nStreams, nChunks, cancelled >>
  /\ UNCHANGED << env, permission, adapter, det, lastRecord, pubsub, store, compaction >>

\* its wait ends by answer, rejection or timeout (lines 86-98)
OtherReturn ==
  /\ otherPc = "q_wait"
  /\ futures' = [futures EXCEPT ![OtherSession].state =
                   IF @ = "pending" THEN "cancelled" ELSE @]
  /\ pending_questions' =
       [pending_questions EXCEPT ![futures[OtherSession].rid] = 0]
  /\ otherPc' = "done"
  /\ UNCHANGED << call, states, loop_states, procs, processors, messages,
                  bus, out, todos, agent, nStreams, nChunks, cancelled >>
  /\ UNCHANGED << env, permission, adapter, det, lastRecord, pubsub, store, compaction >>

\* the consumer pulls again after a tool_result chunk
ToolResultSeen(c) ==
  /\ call[c].pc = "tr_yield"
  /\ states' = ObserveToolResult(c, states)
  /\ call' = [call EXCEPT ![c].pc = "stream"]
  /\ UNCHANGED << loop_states, procs, processors, messages, bus, out,
                  pending_questions, futures, todos, agent, nStreams,
                  nChunks, cancelled >>
  /\ UNCHANGED << env, otherPc, permission, adapter, det, lastRecord, pubsub, store, compaction >>


\* _agentic_loop, lines 178-183: step.finished is published before the
\* doom-loop break of line 188
StepFinishedBus_break_first(c, doom) ==
  IF doom THEN bus
  ELSE Append(bus, Event("step.finished", c, "none", <<0, 0>>))

StepFinishedBus(c, doom) ==
  Append(bus, Event("step.finished", c, "none", <<0, 0>>))

\* _agentic_loop, lines 171-201: the end of a step
LoopTurnEnd(c) ==
  /\ call[c].kind = "loop" /\ call[c].pc = "turn_end"
  /\ LET p == procs[call[c].proc]
         st == states[c]
         doom == is_doom_loop(p)
         remind == /\ st.stop_reason # "tool_calls"
                   /\ st.todo_reminder_count < st.max_todo_reminders
                   /\ todos
     IN /\ out' = [out EXCEPT ![c] =
                     IF doom THEN Append(@, TextChunk("loop", "doom_loop"))
                     ELSE @]
        /\ procs' = [procs EXCEPT ![call[c].proc] =
                       finish_step(p, IF doom THEN "doom_loop"
                                      ELSE "completed")]
        /\ bus' = StepFinishedBus(c, doom)
        /\ states' = IF ~doom /\ remind
                     THEN [states EXCEPT ![c] =
                             [@ EXCEPT !.todo_reminder_count = @ + 1,
                                       !.pending_reminder = TRUE]]
                     ELSE states
        /\ call' = [call EXCEPT ![c].pc =
                      IF doom THEN "exit"
                      ELSE IF st.stop_reason # "tool_calls" /\ ~remind
                      THEN "exit"
                      ELSE "head"]
  /\ UNCHANGED << loop_states, processors, messages, pending_questions,
                  futures, todos, agent, nStreams, nChunks, cancelled >>
  /\ UNCHANGED << env, otherPc, permission, adapter, det, lastRecord, pubsub, store, compaction >>

\* the single turn of prompt() returns (line 438)
SingleTurnEnd(c) ==
  /\ call[c].kind = "single" /\ call[c].pc = "turn_end"
  /\ call' = [call EXCEPT ![c].pc = "done"]
  /\ UNCHANGED << states, loop_states, procs, processors, messages, bus, out,
                  pending_questions, futures, todos, agent, nStreams,
                  nChunks, cancelled >>
  /\ UNCHANGED << env, otherPc, permission, adapter, det, lastRecord, pubsub, store, compaction >>

\* ---------------------------------------------------- SessionPrompt.resume
\* lines 711-723
Resume(c) ==
  /\ call[c].pc = "idle"
  /\ \A d \in Calls : d < c => call[d].pc # "idle"
  /\ "resume" \in env.kinds[c]
  /\ IF loop_states = 0 \/ ~states[loop_states].paused
     THEN /\ out' = [out EXCEPT ![c] =
                       Append(@, ErrorChunk("resume", "no_paused_loop"))]
          /\ call' = [call EXCEPT ![c] =
                        [@ EXCEPT !.kind = "resume", !.pc = "done"]]
          /\ UNCHANGED states
     ELSE /\ states' = [states EXCEPT ![loop_states] =
                          [@ EXCEPT !.paused = FALSE,
                                    !.pause_reason = "none"]]
          /\ call' = [call EXCEPT ![c] =
                        [@ EXCEPT !.kind = "resume", !.pc = "head",
                                  !.state = loop_states,
                                  !.seen_reason =
                                     states[loop_states].pause_reason]]
          /\ UNCHANGED out
  /\ UNCHANGED << loop_states, procs, processors, messages, bus,
                  pending_questions, futures, todos, agent, nStreams,
                  nChunks, cancelled >>
  /\ UNCHANGED << env, otherPc, permission, adapter, det, lastRecord, pubsub, store, compaction >>

\* lines 725-731: the while test and the start of a continuation turn
ResumeHead(c) ==
  /\ call[c].kind = "resume" /\ call[c].pc = "head"
  /\ LET st == states[call[c].state]
     IN IF st.stop_reason = "tool_calls" /\ ~st.paused
           /\ st.step < st.max_steps
        THEN LET msgs == TurnMessages(c, "", TRUE)
                 resuming == Append(out[c], TextChunk("resume", "resuming"))
             IN /\ env.provider => nStreams < env.streams
                /\ states' = [states EXCEPT ![call[c].state].step = @ + 1]
                /\ IF env.provider
                   THEN /\ out' = [out EXCEPT ![c] = resuming]
                        /\ messages' = msgs
                        /\ call' = [call EXCEPT ![c] =
                                      TurnLocals(@, "", TRUE, msgs)]
                        /\ nStreams' = nStreams + 1
                   ELSE /\ out' = [out EXCEPT ![c] =
                                     Append(resuming, ProviderNotFound)]
                        /\ call' = [call EXCEPT ![c] = TurnFailed(@)]
                        /\ UNCHANGED << messages, nStreams >>
        ELSE /\ call' = [call EXCEPT ![c].pc = "done"]
             /\ UNCHANGED << states, out, messages, nStreams >>
  /\ UNCHANGED << loop_states, procs, processors, bus, pending_questions,
                  futures, todos, agent, nChunks, cancelled >>
  /\ UNCHANGED << env, otherPc, permission, adapter, det, lastRecord, pubsub, store, compaction >>

\* a turn run by resume() is over; back to its while test
ResumeTurnEnd(c) ==
  /\ call[c].kind = "resume" /\ call[c].pc = "turn_end"
  /\ call' = [call EXCEPT ![c].pc = "head"]
  /\ UNCHANGED << states, loop_states, procs, processors, messages, bus, out,
                  pending_questions, futures, todos, agent, nStreams,
                  nChunks, cancelled >>
  /\ UNCHANGED << env, otherPc, permission, adapter, det, lastRecord, pubsub, store, compaction >>

\* ------------------------------------------------------------------ Next
Next ==
  \/ \E c \in Calls : Prompt(c)
  \/ \E c \in Calls : SingleHead(c)
  \/ \E c \in Calls : LoopHead(c)
  \/ \E c \in Calls : LoopExit(c)
  \/ Cancel
  \/ \E c \in Calls : ChunkText(c)
  \/ \E c \in Calls : ChunkToolCall(c)
  \/ \E c \in Calls : ChunkDone(c)
  \/ \E c \in Calls : ChunkError(c)
  \/ \E c \in Calls : ExecuteTool(c)
  \/ \E r \in QuestionIds : Reply(r)
  \/ \E r \in QuestionIds : Reject(r)
  \/ \E c \in Calls : AskWake(c)
  \/ \E c \in Calls : AskTimeout(c)
  \/ \E r \in QuestionIds : OtherAsk(r)
  \/ OtherReturn
  \/ \E c \in Calls : ToolResultSeen(c)
  \/ \E c \in Calls : LoopTurnEnd(c)
  \/ \E c \in Calls : SingleTurnEnd(c)
  \/ \E c \in Calls : Resume(c)
  \/ \E c \in Calls : ResumeHead(c)
  \/ \E c \in Calls : ResumeTurnEnd(c)

Spec == Init /\ [][Next]_vars


\* -------------------------------------------- the detector on its own
\* DoomLoopDetector.record applied to arbitrary call sequences
DetectorTools == {"foo", "bar"}
DetectorArgs == {"none", "empty", "A", "B"}

InitDetector ==
  /\ Init
  /\ env = DoomProfile

Record(tool_name, args) ==
  /\ Len(det) < MaxRecords
  /\ det' = DetectorHistory(det, tool_name, args)
  /\ lastRecord' = DetectorResult(det, tool_name, args)
  /\ UNCHANGED orchVars

NextDetector == \E t \in DetectorTools, a \in DetectorArgs : Record(t, a)

SpecDetector == InitDetector /\ [][NextDetector]_vars


\* ------------------------------------------ is_tool_allowed on its own
\* is_tool_allowed applied to arbitrary permission lists and tool names
PermissionTools == {"*", "ls", "question"}
PermissionActions == {"allow", "deny", "ask"}
CheckedTools == {"ls", "question", "nope"}

PermissionEntries ==
  [tool_name : PermissionTools, action : PermissionActions]

PermissionLists ==
  UNION { [1..n -> PermissionEntries] : n \in 0..MaxPermissions }

\* nothing has run yet: the state of Init without the agent and the inputs
\* of the stand-alone functions
Quiescent ==
  /\ call = [c \in Calls |-> IdleCall]
  /\ states = [c \in Calls |-> NewLoopState(0)]
  /\ loop_states = 0
  /\ procs = <<>>
  /\ processors = 0
  /\ messages = <<>>
  /\ bus = <<>>
  /\ out = [c \in Calls |-> <<>>]
  /\ pending_questions = [r \in QuestionIds |-> 0]
  /\ futures = [a \in Askers |-> NoFuture]
  /\ env = ToolsProfile
  /\ todos = FALSE
  /\ nStreams = 0
  /\ nChunks = 0
  /\ cancelled = {}
  /\ otherPc = "idle"
  /\ det = <<>>
  /\ lastRecord = FALSE
  /\ pubsub = NewBus

InitPermissions ==
  /\ Quiescent
  /\ store = NewStore
  /\ compaction = NewCompaction
  /\ \E P \in PermissionLists :
       agent = [permissions |-> P, pause_on_question |-> TRUE]
  /\ permission = NoPermission
  /\ adapter = NoAdapter

CheckTool(tool_name) ==
  /\ permission' = [tool_name |-> tool_name,
                    result |-> is_tool_allowed(agent, tool_name)]
  /\ UNCHANGED << call, states, loop_states, procs, processors, messages,
                  bus, out, pending_questions, futures, todos, agent,
                  nStreams, nChunks, cancelled, env, otherPc, adapter, det,
                  lastRecord, pubsub, store, compaction >>

NextPermissions == \E t \in CheckedTools : CheckTool(t)

SpecPermissions == InitPermissions /\ [][NextPermissions]_vars


\* ------------------------------------------- the provider adapters alone
\* What a backend stream delivers, as the adapters see it: a text delta, a
\* complete function call, a finish with the native reason stop or with the
\* native tool reason, a failure of the backend call, and a failure whose
\* message names the thinking configuration.
BackendEvents ==
  {"text", "tool", "finish_stop", "finish_tool", "fail", "fail_thinking"}
BackendScripts == UNION { [1..n -> BackendEvents] : n \in 1..MaxBackend }
\* what the backend does when it is called again without thinking
RetryScripts ==
  { <<"fail">>, <<"text", "finish_stop">>, <<"tool", "finish_tool">> }
AdapterNames == {"gemini", "litellm", "openai", "anthropic"}

AText == <<"text", "none">>
AToolCall == <<"tool_call", "none">>
ADone(stop) == <<"done", stop>>
AError == <<"error", "none">>
Repeat(x, n) == [i \in 1..n |-> x]

\* chunks yielded so far, and the exception that left the generator
Yielded(chunks, raised) == [chunks |-> chunks, raised |-> raised]

NativeReason(e) == IF e = "finish_tool" THEN "tool" ELSE "stop"
Failure(e) == IF e = "fail_thinking" THEN "thinking" ELSE "other"

\* _map_stop_reason of each adapter on the two classes of native reasons
\* and on a missing reason
map_stop_reason(reason) ==
  IF reason = "tool" THEN "tool_calls" ELSE "end_turn"

\* GeminiProvider._do_stream from event i on
RECURSIVE gemini_do_stream(_, _, _, _)
gemini_do_stream(script, i, pending, chunks) ==
  IF i > Len(script) THEN Yielded(Append(chunks, ADone("end_turn")), "none")
  ELSE LET e == script[i]
       IN CASE e = "text" ->
                 gemini_do_stream(script, i + 1, pending, Append(chunks, AText))
            [] e = "tool" ->
                 gemini_do_stream(script, i + 1, pending + 1, chunks)
            [] e \in {"finish_stop", "finish_tool"} ->
                 Yielded(Append(chunks \o Repeat(AToolCall, pending),
                                ADone(IF pending > 0 THEN "tool_calls"
                                      ELSE map_stop_reason(NativeReason(e)))),
                         "none")
            [] OTHER -> Yielded(chunks, Failure(e))

\* AnthropicProvider._do_stream from event i on
RECURSIVE anthropic_do_stream(_, _, _)
anthropic_do_stream(script, i, chunks) ==
  IF i > Len(script) THEN Yielded(chunks, "none")
  ELSE LET e == script[i]
       IN CASE e = "text" ->
                 anthropic_do_stream(script, i + 1, Append(chunks, AText))
            [] e = "tool" ->
                 anthropic_do_stream(script, i + 1, Append(chunks, AToolCall))
            [] e \in {"finish_stop", "finish_tool"} ->
                 anthropic_do_stream(script, i + 1,
                   Append(chunks, ADone(map_stop_reason(NativeReason(e)))))
            [] OTHER -> Yielded(chunks, Failure(e))

\* _stream_with_fallback of the Gemini and Anthropic adapters: one retry
\* without the thinking configuration, outside the try block
stream_with_fallback(thinking, first, second) ==
  IF first.raised = "none" THEN first
  ELSE IF thinking /\ first.raised = "thinking"
  THEN Yielded(first.chunks \o second.chunks, second.raised)
  ELSE Yielded(Append(first.chunks, AError), "none")

\* OpenAIProvider.stream from event i on: no try block
RECURSIVE openai_stream(_, _, _, _, _)
openai_stream(script, i, tool_calls, finish_reason, chunks) ==
  IF i > Len(script)
  THEN Yielded(Append(chunks \o Repeat(AToolCall, tool_calls),
                      ADone(map_stop_reason(finish_reason))), "none")
  ELSE LET e == script[i]
       IN CASE e = "text" ->
                 openai_stream(script, i + 1, tool_calls, finish_reason,
                               Append(chunks, AText))
            [] e = "tool" ->
                 openai_stream(script, i + 1, tool_calls + 1, finish_reason,
                               chunks)
            [] e \in {"finish_stop", "finish_tool"} ->
                 openai_stream(script, i + 1, tool_calls, NativeReason(e),
                               chunks)
            [] OTHER -> Yielded(chunks, Failure(e))

\* LiteLLMProvider.stream from event i on: the whole loop is in a try block
RECURSIVE litellm_stream(_, _, _, _)
litellm_stream(script, i, current_tool_calls, chunks) ==
  IF i > Len(script) THEN Yielded(chunks, "none")
  ELSE LET e == script[i]
       IN CASE e = "text" ->
                 litellm_stream(script, i + 1, current_tool_calls,
                                Append(chunks, AText))
            [] e = "tool" ->
                 litellm_stream(script, i + 1, current_tool_calls + 1, chunks)
            [] e \in {"finish_stop", "finish_tool"} ->
                 litellm_stream(script, i + 1, current_tool_calls,
                   Append(chunks \o Repeat(AToolCall, current_tool_calls),
                          ADone(map_stop_reason(NativeReason(e)))))
            [] OTHER -> Yielded(Append(chunks, AError), "none")

adapter_stream(name, thinking, script, retry) ==
  CASE name = "gemini" ->
         stream_with_fallback(thinking,
                              gemini_do_stream(script, 1, 0, <<>>),
                              gemini_do_stream(retry, 1, 0, <<>>))
    [] name = "anthropic" ->
         stream_with_fallback(thinking,
                              anthropic_do_stream(script, 1, <<>>),
                              anthropic_do_stream(retry, 1, <<>>))
    [] name = "openai" -> openai_stream(script, 1, 0, "none", <<>>)
    [] name = "litellm" -> litellm_stream(script, 1, 0, <<>>)

InitAdapters ==
  /\ Quiescent
  /\ store = NewStore
  /\ compaction = NewCompaction
  /\ agent = BuildAgent
  /\ permission = NoPermission
  /\ \E n \in AdapterNames, t \in BOOLEAN, sc \in BackendScripts,
        re \in RetryScripts :
       adapter = [name |-> n, thinking |-> t, script |-> sc, retry |-> re,
                  chunks |-> <<>>, raised |-> "none", streamed |-> FALSE]

\* the consumer drains adapter.stream(...)
Stream ==
  /\ ~adapter.streamed
  /\ LET r == adapter_stream(adapter.name, adapter.thinking, adapter.script,
                             adapter.retry)
     IN adapter' = [adapter EXCEPT !.chunks = r.chunks, !.raised = r.raised,
                                   !.streamed = TRUE]
  /\ UNCHANGED << call, states, loop_states, procs, processors, messages,
                  bus, out, pending_questions, futures, todos, agent,
                  nStreams, nChunks, cancelled, env, otherPc, permission,
                  det, lastRecord, pubsub, store, compaction >>

NextAdapters == Stream

SpecAdapters == InitAdapters /\ [][NextAdapters]_vars


\* ------------------------------------------------------ core/bus.py: Bus
\* Subscribers, publishers and clear() run as tasks of one event loop.  A
\* step runs from one suspension to the next; publish suspends only inside
\* a callback whose coroutine suspends, with Bus._lock held.
InitBus ==
  /\ Quiescent
  /\ store = NewStore
  /\ compaction = NewCompaction
  /\ agent = BuildAgent
  /\ permission = NoPermission
  /\ adapter = NoAdapter

BusUnchanged ==
  UNCHANGED << call, states, loop_states, procs, processors, messages, bus,
               out, pending_questions, futures, todos, agent, nStreams,
               nChunks, cancelled, env, otherPc, permission, adapter, det,
               lastRecord, store, compaction >>

\* callbacks subscribe in the order of their numbers
NextHandler ==
  IF \E h \in Handlers : pubsub.handlers[h].kind = "none"
    THEN CHOOSE h \in Handlers :
           /\ pubsub.handlers[h].kind = "none"
           /\ \A g \in Handlers : g < h => pubsub.handlers[g].kind # "none"
    ELSE 0

\* list.remove(x): the first occurrence goes, later items move down
RECURSIVE list_remove(_, _)
list_remove(lst, x) ==
  IF lst = <<>> THEN <<>>
  ELSE IF Head(lst) = x THEN Tail(lst)
  ELSE <<Head(lst)>> \o list_remove(Tail(lst), x)

SeqElems(lst) == { lst[i] : i \in 1 .. Len(lst) }

\* Bus.subscribe(event_type, callback)
Subscribe(t, kind) ==
  /\ NextHandler # 0
  /\ pubsub' = [pubsub EXCEPT
        !.subscribers[t] = Append(@, NextHandler),
        !.handlers[NextHandler] = [kind |-> kind, topic |-> t, live |-> TRUE]]
  /\ BusUnchanged

\* Bus.subscribe_all(callback)
SubscribeAll(kind) ==
  /\ NextHandler # 0
  /\ pubsub' = [pubsub EXCEPT
        !.all_subscribers = Append(@, NextHandler),
        !.handlers[NextHandler] =
           [kind |-> kind, topic |-> "*", live |-> TRUE]]
  /\ BusUnchanged

\* the unsubscribe closure of callback h, called once; it takes no lock.
\* After clear() the remove raises and the tables stay as they are.
Unsubscribe(h) ==
  /\ pubsub.handlers[h].live
  /\ LET topic == pubsub.handlers[h].topic
         gone == [pubsub EXCEPT
                    !.handlers[h].live = FALSE,
                    !.publish = [p \in Publishers |->
                       [@[p] EXCEPT !.expected = @ \ {h}]]]
     IN pubsub' =
          IF topic = "*"
            THEN [gone EXCEPT !.all_subscribers = list_remove(@, h)]
            ELSE [gone EXCEPT !.subscribers[topic] = list_remove(@, h)]
  /\ BusUnchanged

\* Bus.clear(): waits for the lock, then empties both tables
Clear ==
  /\ pubsub.lock = 0
  /\ pubsub.subscribers # NewBus.subscribers \/ pubsub.all_subscribers # <<>>
  /\ pubsub' = [pubsub EXCEPT !.subscribers = NewBus.subscribers,
                              !.all_subscribers = <<>>]
  /\ BusUnchanged

\* The two for loops of Bus.publish from where publisher p stands, up to the
\* next callback that suspends or to the release of the lock.  A list
\* iterator keeps the index of the next item and reads the list as it is
\* then; an exception of a callback is caught and the loop goes on.
RECURSIVE run_publish(_, _)
run_publish(b, p) ==
  LET st == b.publish[p]
      lst == IF st.pc = "typed" THEN b.subscribers[st.type]
             ELSE b.all_subscribers
  IN IF st.next > Len(lst)
       THEN IF st.pc = "typed"
              THEN run_publish([b EXCEPT !.publish[p].pc = "all",
                                         !.publish[p].next = 1], p)
              ELSE [b EXCEPT
                      !.lock = 0,
                      !.publish[p] = [IdlePublish EXCEPT !.seq = st.seq],
                      !.finished = Append(@, [pub |-> p, seq |-> st.seq,
                                              type |-> st.type,
                                              expected |-> st.expected])]
       ELSE LET h == lst[st.next]
                called == [b EXCEPT
                             !.publish[p].next = st.next + 1,
                             !.log = Append(@, [pub |-> p, seq |-> st.seq,
                                                type |-> st.type,
                                                handler |-> h])]
            IN IF b.handlers[h].kind = "await"
                 THEN [called EXCEPT !.publish[p].awaiting = h]
                 ELSE run_publish(called, p)

\* Bus.publish(event, payload) by task p, once the lock is free
Publish(p, t) ==
  /\ pubsub.publish[p].pc = "idle"
  /\ Len(pubsub.finished) < MaxPublishes
  /\ pubsub.lock = 0
  /\ pubsub' = run_publish(
        [pubsub EXCEPT
           !.lock = p,
           !.publish[p] =
              [pc |-> "typed", type |-> t, next |-> 1,
               seq |-> pubsub.publish[p].seq + 1, awaiting |-> 0,
               expected |-> SeqElems(pubsub.subscribers[t])
                              \cup SeqElems(pubsub.all_subscribers)]], p)
  /\ BusUnchanged

\* the coroutine publisher p awaits returns or raises
HandlerDone(p) ==
  /\ pubsub.publish[p].awaiting # 0
  /\ pubsub' = run_publish([pubsub EXCEPT !.publish[p].awaiting = 0], p)
  /\ BusUnchanged

NextBus ==
  \/ \E t \in EventTypes, k \in HandlerKinds : Subscribe(t, k)
  \/ \E k \in HandlerKinds : SubscribeAll(k)
  \/ \E h \in Handlers : Unsubscribe(h)
  \/ Clear
  \/ \E p \in Publishers, t \in EventTypes : Publish(p, t)
  \/ \E p \in Publishers : HandlerDone(p)

SpecBus == InitBus /\ [][NextBus]_vars



\* ----------------------------------------- core/identifier.py: Identifier
InitIdentifier ==
  /\ Quiescent
  /\ store = NewStore
  /\ compaction = NewCompaction
  /\ agent = BuildAgent
  /\ permission = NoPermission
  /\ adapter = NoAdapter

IdentifierUnchanged ==
  UNCHANGED << call, states, loop_states, procs, processors, messages, bus,
               out, pending_questions, futures, todos, agent, nStreams,
               nChunks, cancelled, env, otherPc, permission, adapter, det,
               lastRecord, pubsub, compaction >>

PREFIXES == [part |-> "prt", message |-> "msg"]
PrefixTypes == DOMAIN PREFIXES

\* the values the random part of a ULID can take, and the digits of the
\* fixed-width encoding of the two parts
Randomness == {0, 1}
Base == 2
TimestampWidth == MaxClock
RandomnessWidth == 1

RECURSIVE Pow(_, _)
Pow(b, e) == IF e = 0 THEN 1 ELSE b * Pow(b, e - 1)

\* str(ulid): n in w digits, most significant first
Encode(n, w) == [k \in 1 .. w |-> (n \div Pow(Base, w - k)) % Base]

\* ULID(): the millisecond of the clock, then randomness
ULID(ms, random) ==
  Encode(ms % Pow(Base, TimestampWidth), TimestampWidth)
    \o Encode(random, RandomnessWidth)

\* Identifier.generate(prefix)
generate(prefix, random) ==
  [prefix |-> PREFIXES[prefix], ulid |-> ULID(store.clock, random)]

Minted(st) == { st.minted[k] : k \in 1 .. Len(st.minted) }

\* a caller mints an identifier; the 80 random bits never repeat within a
\* millisecond
Generate(prefix) ==
  /\ Len(store.minted) < MaxMinted
  /\ \E random \in Randomness :
       /\ generate(prefix, random) \notin Minted(store)
       /\ store' = [store EXCEPT
                      !.minted = Append(@, generate(prefix, random))]
  /\ IdentifierUnchanged

\* a millisecond passes
Tick ==
  /\ store.clock < MaxClock
  /\ store' = [store EXCEPT !.clock = @ + 1]
  /\ IdentifierUnchanged

NextIdentifier ==
  \/ \E prefix \in PrefixTypes : Generate(prefix)
  \/ Tick

SpecIdentifier == InitIdentifier /\ [][NextIdentifier]_vars



\* ------------- core/storage.py, session/message.py, session/session.py
\* The local store.  Storage.read, write, remove and list do not suspend, so
\* an operation runs in one step up to its Bus.publish.  store.log keeps, per
\* operation, the call, its storage accesses and its publish in their order.
Sessions == {"s1", "s2"}

SessionInfo(s) == [id |-> s, title |-> "t"]

\* two sessions exist: Session.create has stored their records
InitStore ==
  /\ Quiescent
  /\ agent = BuildAgent
  /\ permission = NoPermission
  /\ adapter = NoAdapter
  /\ store = [NewStore EXCEPT
                !.data = [k \in { <<"session", s>> : s \in Sessions } |->
                            SessionInfo(k[2])]]
  /\ compaction = NewCompaction

Logged(st, kind, name, key) ==
  [st EXCEPT !.log = Append(@, [op |-> st.ops, kind |-> kind, name |-> name,
                                key |-> key])]

\* an operation is called
Called(st, name, key) ==
  Logged([st EXCEPT !.ops = @ + 1], "call", name, key)

\* Storage.write(key, data)
write(st, key, value) ==
  Logged([st EXCEPT !.data = (key :> value) @@ st.data], "write",
         "Storage.write", key)

\* Storage.remove(key)
remove(st, key) ==
  Logged([st EXCEPT !.data = [k \in DOMAIN st.data \ {key} |-> st.data[k]]],
         "remove", "Storage.remove", key)

\* Storage.list(prefix): the keys under the prefix
list(st, prefix) ==
  { k \in DOMAIN st.data :
      /\ Len(k) > Len(prefix)
      /\ SubSeq(k, 1, Len(prefix)) = prefix }

\* Bus.publish(event, payload)
publish(st, type, key) == Logged(st, "publish", type, key)

\* Identifier.generate inside an operation
mint(st, id) == [st EXCEPT !.minted = Append(@, id)]

MessageData(role) ==
  [role |-> role, parts |-> <<>>, usage |-> FALSE, error |-> FALSE,
   finish |-> FALSE]

\* the message keys ever written, stored or removed since
MessageKeys(st) ==
  { st.log[i].key : i \in { j \in 1 .. Len(st.log) :
                              /\ st.log[j].kind = "write"
                              /\ st.log[j].key[1] = "message" } }

\* Message.get on the local store: the record as stored
get(st, key) == st.data[key]

\* Message.create_user and Message.create_assistant
create_message(st, name, role, s, id) ==
  LET key == <<"message", s, id.ulid>>
  IN publish(write(mint(Called(st, name, key), id), key, MessageData(role)),
             "message.updated", key)

\* Message.add_part: the part gets a fresh id and goes to the end
add_part_stored(st, key, type, id) ==
  LET c == mint(Called(st, "add_part", key), id)
  IN IF key \notin DOMAIN st.data
     THEN Logged(c, "raise", "NotFoundError", key)
     ELSE publish(
            write(c, key,
                  [st.data[key] EXCEPT !.parts =
                     Append(@, [id |-> id, type |-> type, content |-> "",
                                n |-> c.ops])]),
            "part.updated", key)

\* Message.update_part: the first part with the id is updated
update_part_stored(st, key, id, content) ==
  LET c == Called(st, "update_part", key)
      found == IF key \in DOMAIN st.data
               THEN { i \in 1 .. Len(st.data[key].parts) :
                        st.data[key].parts[i].id = id }
               ELSE {}
  IN IF found = {}
     THEN Logged(c, "raise", "NotFoundError", key)
     ELSE LET i == CHOOSE j \in found : \A k \in found : j <= k
          IN publish(
               write(c, key,
                     [st.data[key] EXCEPT !.parts[i].content = content]),
               "part.updated", key)

\* Message.set_usage, set_error and set_finish: a stored message gets the
\* field, a missing one is left alone
set_field(st, name, key) ==
  LET c == Called(st, name, key)
  IN IF key \notin DOMAIN st.data THEN c
     ELSE write(c, key,
                IF name = "set_usage" THEN [st.data[key] EXCEPT !.usage = TRUE]
                ELSE IF name = "set_error"
                THEN [st.data[key] EXCEPT !.error = TRUE]
                ELSE [st.data[key] EXCEPT !.finish = TRUE])

\* Message.delete
delete_message(st, key) ==
  publish(remove(Called(st, "delete", key), key), "message.removed", key)

RECURSIVE remove_all(_, _)
remove_all(st, keys) ==
  IF keys = {} THEN st
  ELSE LET k == CHOOSE x \in keys : TRUE
       IN remove_all(remove(st, k), keys \ {k})

\* Session.delete on the local store
delete_session(st, s) ==
  LET c == Called(st, "Session.delete", <<"session", s>>)
  IN IF <<"session", s>> \notin DOMAIN st.data
     THEN Logged(c, "raise", "NotFoundError", <<"session", s>>)
     ELSE publish(
            remove(remove_all(c, list(c, <<"message", s>>)),
                   <<"session", s>>),
            "session.deleted", <<"session", s>>)

\* TodoTool._write_todos
write_todos(st, s) ==
  write(Called(st, "todowrite", <<"todo", s>>), <<"todo", s>>, "todos")

StoreUnchanged ==
  UNCHANGED << call, states, loop_states, procs, processors, messages, bus,
               out, pending_questions, futures, todos, agent, nStreams,
               nChunks, cancelled, env, otherPc, permission, adapter, det,
               lastRecord, pubsub, compaction >>

\* every key a message can be stored under
AllMessageKeys ==
  { <<"message", s, ULID(ms, r)>> :
      s \in Sessions, ms \in 0 .. MaxClock, r \in Randomness }

Fresh(prefix) ==
  { generate(prefix, r) : r \in Randomness } \ Minted(store)

CreateMessage(s, role) ==
  /\ store.ops < MaxOps
  /\ \E id \in Fresh("message") :
       store' = create_message(store,
                               IF role = "user" THEN "create_user"
                               ELSE "create_assistant", role, s, id)
  /\ StoreUnchanged

AddPart(key) ==
  /\ store.ops < MaxOps
  /\ key \in MessageKeys(store)
  /\ \E id \in Fresh("part"), type \in {"text", "tool_call"} :
       store' = add_part_stored(store, key, type, id)
  /\ StoreUnchanged

UpdatePart(key) ==
  /\ store.ops < MaxOps
  /\ key \in DOMAIN store.data
  /\ \E i \in 1 .. Len(store.data[key].parts) :
       store' = update_part_stored(store, key, store.data[key].parts[i].id,
                                   "u")
  /\ StoreUnchanged

SetField(key) ==
  /\ store.ops < MaxOps
  /\ key \in MessageKeys(store)
  /\ \E name \in {"set_usage", "set_error", "set_finish"} :
       store' = set_field(store, name, key)
  /\ StoreUnchanged

DeleteMessage(key) ==
  /\ store.ops < MaxOps
  /\ key \in MessageKeys(store)
  /\ store' = delete_message(store, key)
  /\ StoreUnchanged

DeleteSession(s) ==
  /\ store.ops < MaxOps
  /\ store' = delete_session(store, s)
  /\ StoreUnchanged

WriteTodos(s) ==
  /\ store.ops < MaxOps
  /\ store' = write_todos(store, s)
  /\ StoreUnchanged

NextStore ==
  \/ \E s \in Sessions, role \in {"user", "assistant"} : CreateMessage(s, role)
  \/ \E key \in AllMessageKeys : AddPart(key)
  \/ \E key \in AllMessageKeys : UpdatePart(key)
  \/ \E key \in AllMessageKeys : SetField(key)
  \/ \E key \in AllMessageKeys : DeleteMessage(key)
  \/ \E s \in Sessions : DeleteSession(s)
  \/ \E s \in Sessions : WriteTodos(s)
  \/ Tick

SpecStore == InitStore /\ [][NextStore]_vars


\* --------------------------------------------- session/compaction.py
\* prune and compact on the message log of one session.  compaction.messages
\* is the log in created_at order, compaction.returns what Message.list
\* hands to its caller; op and result are the last prune or compact and
\* what it returned, provider what the last compact found, all cleared when
\* the log grows again.
PRUNE_MINIMUM == 20000

PRUNE_PROTECT == 40000

PRUNE_PROTECTED_TOOLS == {"skill"}

\* "[pruned]": a text that starts with the marker, and its length
PRUNED_MARKER == [pruned |-> TRUE, len |-> 8]

CHARS_PER_TOKEN == 4

MAX_OUTPUT_LENGTH == 50000

\* the tool calls whose results the log holds: the tool, how its execution
\* ended, and the length of its output or of the text of its exception
ToolRuns ==
  { << "bash", "error", 2 * MAX_OUTPUT_LENGTH >>,
    << "skill", "completed", MAX_OUTPUT_LENGTH + 1 >> }

\* Message.list as defined returns the list of messages; the tests of
\* prune and compact replace it by one that returns (messages, total)
ListReturns == {"list", "pair"}

\* what the stream of the provider compact finds does: there is no
\* provider, the first chunk is an error, the stream raises, or text comes
Providers == {"none", "error", "raise", "text"}

\* round(): halves go to the even neighbour
round_div(n, d) ==
  LET q == n \div d
      r == n % d
  IN IF 2 * r < d THEN q
     ELSE IF 2 * r > d THEN q + 1
     ELSE IF q % 2 = 0 THEN q ELSE q + 1

estimate_half_up(text) ==
  IF text.len = 0 THEN 0
  ELSE (2 * text.len + CHARS_PER_TOKEN) \div (2 * CHARS_PER_TOKEN)

\* estimate(text)
estimate(text) ==
  IF text.len = 0 THEN 0
  ELSE LET n == round_div(text.len, CHARS_PER_TOKEN)
       IN IF n > 0 THEN n ELSE 0

\* BaseTool.truncate_output(output): the cut text ends with a 22-character
\* notice
truncate_output(len) ==
  IF len <= MAX_OUTPUT_LENGTH THEN len ELSE MAX_OUTPUT_LENGTH + 22

\* the output _execute_tool persists: "[title]\n" with a one-letter title
\* and the truncated output, or "Error executing tool: " and the whole text
\* of the exception
persisted_output(status, len) ==
  [pruned |-> FALSE,
   len |-> IF status = "completed" THEN 4 + truncate_output(len)
           ELSE 22 + len]

\* the tool_result part of _execute_tool: it carries the tool_call_id and
\* the output, and no tool_name.  The field tool is the tool of the call
\* the tool_call_id names; a part built with a tool_name carries that tool.
ToolResultPart(run, named) ==
  [type |-> "tool_result", tool |-> run[1],
   tool_name |-> IF named THEN run[1] ELSE "None",
   tool_output |-> persisted_output(run[2], run[3]), content |-> "None"]

TextPart(content) ==
  [type |-> "text", tool |-> "None", tool_name |-> "None",
   tool_output |-> "None", content |-> content]

LoggedUser == [type |-> "message", role |-> "user", summary |-> FALSE,
                parts |-> <<>>]

LoggedAssistant(summary) ==
  [type |-> "message", role |-> "assistant", summary |-> summary,
   parts |-> <<>>]

\* a Python list
ListOf(items) == [type |-> "list", items |-> items]

\* Message.list(session_id)
Message_list(c) ==
  IF c.returns = "list" THEN ListOf(c.messages)
  ELSE [type |-> "tuple",
        items |-> << ListOf(c.messages), Len(c.messages) >>]

\* "messages, _ = value" raises unless the value has two items
unpacks(value) == Len(value.items) = 2

\* len(x) raises for a message object
has_len(x) == x.type = "list"

within_latest_turn(turns) == turns < 1

\* "if turns < 2: continue"
within_protected_turns(turns) == turns < 2

NewScan == [total |-> 0, pruned |-> 0, to_prune |-> <<>>, turns |-> 0]

\* the inner for loop of prune, from part p of message m down to the first
RECURSIVE scan_parts(_, _, _, _)
scan_parts(msgs, m, p, acc) ==
  IF p = 0 THEN acc
  ELSE LET part == msgs[m].parts[p]
       IN IF part.type # "tool_result" THEN scan_parts(msgs, m, p - 1, acc)
          ELSE IF /\ part.tool_name # "None"
                  /\ part.tool_name \in PRUNE_PROTECTED_TOOLS
          THEN scan_parts(msgs, m, p - 1, acc)
          ELSE IF part.tool_output.pruned THEN acc
          ELSE LET est == estimate(part.tool_output)
                   total == acc.total + est
               IN scan_parts(msgs, m, p - 1,
                    IF total > PRUNE_PROTECT
                    THEN [acc EXCEPT !.total = total, !.pruned = @ + est,
                                     !.to_prune = Append(@, << m, p >>)]
                    ELSE [acc EXCEPT !.total = total])

\* the outer for loop of prune, from message m down to the first
RECURSIVE scan_messages(_, _, _)
scan_messages(msgs, m, acc) ==
  IF m = 0 THEN acc
  ELSE LET msg == msgs[m]
           a == IF msg.role = "user" THEN [acc EXCEPT !.turns = @ + 1]
                ELSE acc
       IN IF within_protected_turns(a.turns)
          THEN scan_messages(msgs, m - 1, a)
          ELSE IF msg.role = "assistant" /\ msg.summary THEN a
          ELSE IF msg.role = "assistant"
          THEN scan_messages(msgs, m - 1,
                             scan_parts(msgs, m, Len(msg.parts), a))
          ELSE scan_messages(msgs, m - 1, a)

update_parts_skipped(c, items, i) == c

\* Message.update_part(..., {"tool_output": PRUNED_MARKER}) for each item
RECURSIVE update_parts(_, _, _)
update_parts(c, items, i) ==
  IF i > Len(items) THEN c
  ELSE update_parts(
         [c EXCEPT !.messages[items[i][1]].parts[items[i][2]].tool_output =
                     PRUNED_MARKER],
         items, i + 1)

\* the call has started and has returned nothing yet
Entered(c, op) == [c EXCEPT !.op = op, !.provider = "none", !.result = None]

\* prune(session_id): every exception ends the call with None
prune(c) ==
  LET e == Entered(c, "prune")
      value == Message_list(c)
  IN IF ~unpacks(value) THEN e
     ELSE LET listed == value.items[1]
          IN IF has_len(listed) /\ listed.items = <<>> THEN e
             ELSE IF ~has_len(listed) THEN e
             ELSE LET acc == scan_messages(listed.items, Len(listed.items),
                                           NewScan)
                  IN IF acc.pruned > PRUNE_MINIMUM
                     THEN [update_parts(e, acc.to_prune, 1) EXCEPT
                             !.result =
                               [type |-> "PruneResult",
                                pruned_count |-> Len(acc.to_prune),
                                tokens_saved |-> acc.pruned]]
                     ELSE e

\* the lines _fallback_summary collects: one per user message and one per
\* assistant message with a text part
summary_lines(msgs) ==
  { i \in 1 .. Len(msgs) :
      \/ msgs[i].role = "user"
      \/ \E p \in 1 .. Len(msgs[i].parts) : msgs[i].parts[p].type = "text" }

\* _fallback_summary(messages, message_count): the header line, the first
\* and the last line as key points, the total
fallback_summary(msgs, message_count) ==
  [header |-> << "[Conversation Summary - ", message_count, " messages]" >>,
   key_points |-> IF Cardinality(summary_lines(msgs)) > 2 THEN 2
                  ELSE Cardinality(summary_lines(msgs)),
   total |-> message_count]

\* the text the stream of the provider leaves in summary_text
summary_text(provider, msgs, message_count) ==
  IF provider = "text" THEN "summary"
  ELSE fallback_summary(msgs, message_count)

\* compact(session_id) on a stored session, with the compaction agent
\* registered; the token and cost estimates of the result are left out
compact(c, provider) ==
  LET e == [Entered(c, "compact") EXCEPT !.provider = provider]
      value == Message_list(c)
  IN IF ~unpacks(value) THEN e
     ELSE LET listed == value.items[1]
          IN IF has_len(listed) /\ listed.items = <<>> THEN e
             ELSE IF ~has_len(listed) THEN e
             ELSE IF provider = "none" THEN e
             ELSE LET message_count == Len(listed.items)
                      text == summary_text(provider, listed.items,
                                           message_count)
                      summary_msg ==
                        [LoggedAssistant(TRUE) EXCEPT
                           !.parts = << TextPart(text) >>]
                  IN [e EXCEPT
                        !.messages = Append(@, summary_msg),
                        !.result = [type |-> "CompactionResult",
                                    summary |-> text,
                                    messages_compacted |-> message_count]]

CompactionUnchanged ==
  UNCHANGED << call, states, loop_states, procs, processors, messages, bus,
               out, pending_questions, futures, todos, agent, nStreams,
               nChunks, cancelled, env, otherPc, permission, adapter, det,
               lastRecord, pubsub, store >>

InitCompaction ==
  /\ Quiescent
  /\ agent = BuildAgent
  /\ permission = NoPermission
  /\ adapter = NoAdapter
  /\ store = NewStore
  /\ \E r \in ListReturns : compaction = [NewCompaction EXCEPT !.returns = r]

\* the log grows: what the last prune or compact left is forgotten
Grown(c, msgs) ==
  [c EXCEPT !.messages = msgs, !.op = "none", !.provider = "none",
            !.result = None]

NParts(msgs) ==
  Cardinality({ << m, p >> \in (1 .. MaxLog + 1) \X (1 .. MaxParts + 1) :
                  m <= Len(msgs) /\ p <= Len(msgs[m].parts) })

\* Message.create_user
CreateUser ==
  /\ Len(compaction.messages) < MaxLog
  /\ compaction' = Grown(compaction, Append(compaction.messages, LoggedUser))
  /\ CompactionUnchanged

\* Message.create_assistant of a prompt, which has created its user
\* message before
CreateAssistant ==
  /\ Len(compaction.messages) < MaxLog
  /\ \E i \in 1 .. Len(compaction.messages) :
       compaction.messages[i].role = "user"
  /\ compaction' = Grown(compaction,
                         Append(compaction.messages, LoggedAssistant(FALSE)))
  /\ CompactionUnchanged

\* _execute_tool adds the result of a call to the assistant message of the
\* running prompt; the tests also build parts that carry a tool_name, for
\* the Message.list they patch in (the name matters for a protected tool
\* only)
AddToolResult(run, named) ==
  LET n == Len(compaction.messages)
  IN /\ n > 0
     /\ compaction.messages[n].role = "assistant"
     /\ ~compaction.messages[n].summary
     /\ NParts(compaction.messages) < MaxParts
     /\ named => compaction.returns = "pair" /\ run[1] \in PRUNE_PROTECTED_TOOLS
     /\ compaction' =
          Grown(compaction,
                [compaction.messages EXCEPT
                   ![n].parts = Append(@, ToolResultPart(run, named))])
     /\ CompactionUnchanged

Prune ==
  /\ compaction' = prune(compaction)
  /\ CompactionUnchanged

Compact(provider) ==
  /\ Len(compaction.messages) < MaxLog
  /\ compaction' = compact(compaction, provider)
  /\ CompactionUnchanged

NextCompaction ==
  \/ CreateUser
  \/ CreateAssistant
  \/ \E run \in ToolRuns, named \in BOOLEAN : AddToolResult(run, named)
  \/ Prune
  \/ \E provider \in Providers : Compact(provider)

SpecCompaction == InitCompaction /\ [][NextCompaction]_vars

\* ------------------------------------------------------- util/token.py
\* count_messages on a list of messages.  compaction.messages is the list,
\* compaction.result the TokenInfo of the last count_messages, cleared when
\* the list grows.  A text is its length; None and "" are both the length 0
\* (both are falsy and both are estimated as 0).
Text(len) == [pruned |-> FALSE, len |-> len]

\* the lengths of the contents, tool names and tool outputs of the list
TextLengths == {0, 10, 11, 12}

\* tool_args: the empty dict serialises to "{}", {"a": 1} to 8 characters
ToolArgs == { [empty |-> TRUE, json |-> Text(2)],
              [empty |-> FALSE, json |-> Text(8)] }

CountedUser(len) ==
  [type |-> "message", role |-> "user", summary |-> FALSE, parts |-> <<>>,
   content |-> Text(len)]

CountedAssistant ==
  [type |-> "message", role |-> "assistant", summary |-> FALSE,
   parts |-> <<>>, content |-> Text(0)]

\* a MessagePart of the given type: content for text and reasoning,
\* tool_name and tool_args for tool_call, tool_output for tool_result
CountedPart(type, len, args) ==
  [type |-> type,
   content |-> IF type \in {"text", "reasoning"} THEN Text(len) ELSE Text(0),
   tool_name |-> IF type = "tool_call" THEN Text(len) ELSE Text(0),
   tool_args |-> IF type = "tool_call" THEN args
                 ELSE [empty |-> TRUE, json |-> Text(2)],
   tool_output |-> IF type = "tool_result" THEN Text(len) ELSE Text(0)]

PartTypes == {"text", "reasoning", "tool_call", "tool_result", "step_start"}

\* "if x": a text is true unless it is None or empty
truthy(text) == text.len > 0

\* the body of the loop over msg.parts in count_messages
part_tokens(part) ==
  IF part.type = "text" /\ truthy(part.content)
  THEN [input |-> 0, output |-> estimate(part.content)]
  ELSE IF part.type = "reasoning" /\ truthy(part.content)
  THEN [input |-> 0, output |-> estimate(part.content)]
  ELSE IF part.type = "tool_call"
  THEN [input |-> 0,
        output |-> (IF truthy(part.tool_name) THEN estimate(part.tool_name)
                    ELSE 0)
                   + (IF ~part.tool_args.empty
                      THEN estimate(part.tool_args.json) ELSE 0)]
  ELSE IF part.type = "tool_result" /\ truthy(part.tool_output)
  THEN [input |-> estimate(part.tool_output), output |-> 0]
  ELSE [input |-> 0, output |-> 0]

RECURSIVE parts_tokens(_, _)
parts_tokens(parts, p) ==
  IF p > Len(parts) THEN [input |-> 0, output |-> 0]
  ELSE LET a == part_tokens(parts[p])
           b == parts_tokens(parts, p + 1)
       IN [input |-> a.input + b.input, output |-> a.output + b.output]

\* the loop over messages in count_messages, from message m on
RECURSIVE messages_tokens(_, _)
messages_tokens(msgs, m) ==
  IF m > Len(msgs) THEN [input |-> 0, output |-> 0]
  ELSE LET a == IF msgs[m].role = "user"
                THEN [input |-> estimate(msgs[m].content), output |-> 0]
                ELSE parts_tokens(msgs[m].parts, 1)
           b == messages_tokens(msgs, m + 1)
       IN [input |-> a.input + b.input, output |-> a.output + b.output]

\* count_messages(messages)
count_messages(msgs) ==
  LET t == messages_tokens(msgs, 1)
  IN [type |-> "TokenInfo", input_tokens |-> t.input,
      output_tokens |-> t.output, total |-> t.input + t.output]

InitTokens ==
  /\ Quiescent
  /\ agent = BuildAgent
  /\ permission = NoPermission
  /\ adapter = NoAdapter
  /\ store = NewStore
  /\ compaction = NewCompaction

\* messages and parts of the list so far
NCounted(msgs) ==
  Len(msgs)
  + Cardinality({ x \in (1 .. MaxCounted + 1) \X (1 .. MaxCounted + 1) :
                    x[1] <= Len(msgs) /\ x[2] <= Len(msgs[x[1]].parts) })

\* a user message joins the list
ListUser(len) ==
  /\ NCounted(compaction.messages) < MaxCounted
  /\ compaction' = Grown(compaction,
                         Append(compaction.messages, CountedUser(len)))
  /\ CompactionUnchanged

\* an assistant message joins the list
ListAssistant ==
  /\ NCounted(compaction.messages) < MaxCounted
  /\ compaction' = Grown(compaction,
                         Append(compaction.messages, CountedAssistant))
  /\ CompactionUnchanged

\* the last message, an assistant message, gets a part
ListPart(type, len, args) ==
  LET n == Len(compaction.messages)
  IN /\ n > 0
     /\ compaction.messages[n].role = "assistant"
     /\ NCounted(compaction.messages) < MaxCounted
     /\ compaction' =
          Grown(compaction,
                [compaction.messages EXCEPT
                   ![n].parts = Append(@, CountedPart(type, len, args))])
     /\ CompactionUnchanged

\* count_messages(messages) is called
CountMessages ==
  /\ compaction' = [compaction EXCEPT
                      !.op = "count_messages",
                      !.result = count_messages(compaction.messages)]
  /\ CompactionUnchanged

NextTokens ==
  \/ \E len \in TextLengths : ListUser(len)
  \/ ListAssistant
  \/ \E type \in PartTypes, len \in TextLengths, args \in ToolArgs :
       ListPart(type, len, args)
  \/ CountMessages

SpecTokens == InitTokens /\ [][NextTokens]_vars

\* ================================================================ claims
LoopCalls == { c \in Calls : call[c].kind = "loop" }

IsStepEvent(e) ==
  e.type \in {"step.started", "step.finished", "tool.state.changed"}

\* the step and tool events one prompt call has published, in bus order
StepEvents(c) == SelectSeq(bus, LAMBDA e : e.call = c /\ IsStepEvent(e))

\* one move of the recogniser of
\* (step.started (running (completed|error))* step.finished)+
Delta(q, e) ==
  CASE q[1] = "out" ->
         IF e.type = "step.started" THEN <<"in", <<0, 0>>>>
         ELSE <<"bad", <<0, 0>>>>
    [] q[1] = "in" ->
         IF e.type = "step.finished" THEN <<"out", <<0, 0>>>>
         ELSE IF e.type = "tool.state.changed" /\ e.status = "running"
         THEN <<"tool", e.part>>
         ELSE <<"bad", <<0, 0>>>>
    [] q[1] = "tool" ->
         IF e.type = "tool.state.changed"
            /\ e.status \in {"completed", "error"} /\ e.part = q[2]
         THEN <<"in", <<0, 0>>>>
         ELSE <<"bad", <<0, 0>>>>
    [] OTHER -> <<"bad", <<0, 0>>>>

RECURSIVE Walk(_, _, _)
Walk(es, i, q) ==
  IF i > Len(es) THEN q ELSE Walk(es, i + 1, Delta(q, es[i]))

Recognised(c) == Walk(StepEvents(c), 1, <<"out", <<0, 0>>>>)[1]

\* C1: in loop mode the step.started, tool.state.changed and step.finished
\* events of one prompt call always form a prefix of
\* (step.started (running (completed|error))* step.finished)+, and the whole
\* trace matches once the call has ended: every step that started has
\* finished, also a step ended by a doom loop or an error chunk, and tool
\* state changes come in running-then-terminal pairs inside a step.
C1_EventOrdering ==
  \A c \in LoopCalls :
    /\ Recognised(c) # "bad"
    /\ call[c].pc \in {"head", "exit", "done"} => Recognised(c) = "out"
    /\ call[c].pc = "done" /\ states[c].step > 0 => StepEvents(c) # <<>>

\* a loop-mode call that ended in a doom loop after running tools
C1_Witness ==
  \E c \in LoopCalls :
    /\ call[c].pc = "done"
    /\ \E i \in 1..Len(procs[call[c].proc].steps) :
         procs[call[c].proc].steps[i].status = "doom_loop"
    /\ \E i \in 1..Len(bus) :
         bus[i].type = "tool.state.changed" /\ bus[i].status = "error"


\* step.started events one call has published
StepsStarted(c) ==
  Cardinality({ i \in 1..Len(bus) :
                  bus[i].call = c /\ bus[i].type = "step.started" })

\* C2: a loop-mode prompt whose resolved cap is max_steps = N starts at most
\* N steps (step.started is published at most N times for it), for every
\* prompt of a sequence of prompts on the session, also after a single-turn
\* prompt that executed tools.
C2_StepCap ==
  \A c \in LoopCalls : StepsStarted(c) <= call[c].max_steps

\* C3: once cancel(session) has marked the loop state of an active loop-mode
\* prompt, that prompt starts no further step, whatever chunks the current
\* step still delivers.
C3_NoStepAfterCancel ==
  [][ \A c \in cancelled : StepsStarted(c)' = StepsStarted(c) ]_vars

ActiveCalls == { c \in Calls : call[c].pc \notin {"idle", "done"} }

\* C4: a session has at most one in-flight prompt()/resume() generator at
\* any moment.
C4_OneInFlight == Cardinality(ActiveCalls) <= 1

\* C5: in every assistant message, every tool_result part with
\* tool_call_id = x comes after a tool_call part of the same message with
\* tool_call_id = x.
C5_Pairing ==
  \A m \in 1..Len(messages) :
    \A i \in 1..Len(messages[m].parts) :
      messages[m].parts[i].type = "tool_result" =>
        \E j \in 1..(i - 1) :
          /\ messages[m].parts[j].type = "tool_call"
          /\ messages[m].parts[j].tool_call_id =
               messages[m].parts[i].tool_call_id

ResultPart(m, i, output) ==
  /\ messages[m].parts[i].type = "tool_result"
  /\ messages[m].parts[i].content = output

\* one message holds two tool results, the second for a tool that was not
\* found or that raised
C5_Witness ==
  \E m \in 1..Len(messages) :
    \E i, j \in 1..Len(messages[m].parts) :
      /\ i < j
      /\ messages[m].parts[i].type = "tool_result"
      /\ ResultPart(m, j, "not_found") \/ ResultPart(m, j, "raised")


\* chunks of the provider that a call has passed on to its consumer
ProviderChunks(c) == SelectSeq(out[c], LAMBDA ch : ch.src = "provider")

ToolCallChunks(c) ==
  Cardinality({ i \in 1..Len(out[c]) : out[c][i].type = "tool_call" })

\* the provider has so far answered every step with one and the same
\* tool_call followed by done(stop_reason = tool_calls)
Scripted(c) ==
  LET P == ProviderChunks(c)
  IN /\ P # <<>>
     /\ \A i \in 1..Len(P) :
          IF i % 2 = 1
          THEN /\ P[i].type = "tool_call"
               /\ P[i].name = P[1].name
               /\ P[i].args = P[1].args
          ELSE P[i].type = "done" /\ P[i].stop = "tool_calls"

\* the only call of the behaviour, never cancelled
Alone(c) ==
  /\ c \notin cancelled
  /\ \A d \in Calls \ {c} : call[d].pc = "idle"

DoomWarning == TextChunk("loop", "doom_loop")

\* C6: with a provider that answers every step with the same tool_call and
\* done(tool_calls), auto_continue and max_steps = 10, the prompt emits
\* exactly three tool_call chunks, then the doom-loop warning text, and ends
\* without a fourth step; the third StepInfo has status doom_loop.
C6_DoomScenario ==
  \A c \in LoopCalls :
    (Alone(c) /\ call[c].max_steps = 10 /\ Scripted(c)) =>
      /\ states[c].step <= DoomThreshold
      /\ ToolCallChunks(c) <= DoomThreshold
      /\ call[c].pc \in {"exit", "done"} =>
           LET steps == procs[call[c].proc].steps
           IN /\ ToolCallChunks(c) = 3
              /\ out[c][Len(out[c])] = DoomWarning
              /\ Cardinality({ i \in 1..Len(out[c]) :
                                 out[c][i] = DoomWarning }) = 1
              /\ states[c].step = 3
              /\ Len(steps) = 3
              /\ steps[3].status = "doom_loop"
              /\ steps[1].status = "completed"
              /\ steps[2].status = "completed"

\* the scripted prompt has ended
C6_Witness ==
  \E c \in LoopCalls :
    /\ Alone(c) /\ call[c].max_steps = 10 /\ Scripted(c)
    /\ call[c].pc = "done"
    /\ out[c][Len(out[c])] = DoomWarning

\* the last DoomThreshold recorded signatures exist and are all equal
AllSameTail ==
  /\ Len(det) >= DoomThreshold
  /\ \A i \in (Len(det) - DoomThreshold + 1)..Len(det) : det[i] = det[Len(det)]

\* C7: record returns true exactly when at least threshold calls have been
\* recorded and the last threshold (tool_name, args-hash) signatures are
\* all equal; is_doom_loop agrees with the most recent record.
C7_Detector ==
  det # <<>> =>
    /\ lastRecord <=> AllSameTail
    /\ is_doom_loop([NewProcessor(DefaultMaxSteps) EXCEPT !.history = det])
         <=> lastRecord

\* same tool, different args in between: (foo,A),(foo,B),(foo,A)
C7_Witness ==
  /\ det = << <<"foo", "hA">>, <<"foo", "hB">>, <<"foo", "hA">> >>
  /\ ~lastRecord

\* what ask_questions hands back for a future in a given final state
Outcome(f) ==
  CASE f.state = "result"    -> {AnswerOutput(f.value)}
    [] f.state = "exception" -> {"rejected"}
    [] f.state = "cancelled" -> {"timeout", "raised"}
    [] OTHER                 -> {}

\* C8: a question future is resolved at most once: once it holds an answer,
\* a rejection or the timeout, no reply or rejection changes it (only a new
\* ask of the same call replaces it), and the blocked ask returns exactly
\* that first resolution.
C8_ResolvedOnce ==
  /\ [][ \A c \in Calls :
           futures[c].state \in {"result", "exception", "cancelled"} =>
             \/ futures'[c] = futures[c]
             \/ futures'[c].state = "pending" ]_vars
  /\ [](\A c \in Calls :
          call[c].result # "none" => call[c].result \in Outcome(futures[c]))

\* an answered future whose key is still in the table: further replies and
\* rejections for the request id are still matched
C8_Witness ==
  \E c \in Calls :
    /\ call[c].pc = "q_wait"
    /\ futures[c].state = "result"
    /\ pending_questions[futures[c].rid] = c


\* a resume() call got hold of the loop state of c
Resumed(c) ==
  \E r \in Calls : call[r].kind = "resume" /\ call[r].state = c

AsksQuestion(c) == call[c].tc.name = "question"

\* C9 as stated: in a loop-mode prompt whose agent has pause_on_question,
\* while the question of the prompt is pending in the channel the loop state
\* is paused with pause_reason = question, and the loop never ends paused
\* for a question.
C9_Original ==
  \A c \in LoopCalls :
    agent.pause_on_question =>
      /\ (call[c].pc = "q_wait" /\ AsksQuestion(c)) =>
           states[c].paused /\ states[c].pause_reason = "question"
      /\ call[c].pc \in {"exit", "done"} =>
           ~(states[c].paused /\ states[c].pause_reason = "question")

\* C9 as amended: while the question is pending the loop state is paused
\* with pause_reason = question unless cancel() or resume() has acted on
\* it (after cancel it is paused with pause_reason = cancelled); a loop
\* state that neither cancel() nor resume() touched is paused only between
\* the question tool_call and its tool_result, so the tool_result clears the
\* pause and the loop does not end paused.
C9_PausedWhileAsking ==
  \A c \in LoopCalls :
    agent.pause_on_question =>
      /\ (call[c].pc = "q_wait" /\ AsksQuestion(c)) =>
           \/ states[c].paused /\ states[c].pause_reason = "question"
           \/ /\ c \in cancelled
              /\ states[c].paused /\ states[c].pause_reason = "cancelled"
           \/ Resumed(c)
      /\ (c \notin cancelled /\ ~Resumed(c) /\ states[c].paused) =>
           /\ call[c].pc \in {"q_wait", "tr_yield"}
           /\ AsksQuestion(c)
           /\ states[c].pause_reason = "question"

\* cancel() arrived while the question was pending
C9_Witness ==
  \E c \in LoopCalls :
    /\ agent.pause_on_question
    /\ call[c].pc = "q_wait" /\ AsksQuestion(c)
    /\ c \in cancelled
    /\ states[c].pause_reason = "cancelled"

\* C10: a resume() that found the loop state paused for a question runs at
\* least one continuation turn before it returns.
C10_ResumeRunsTurn ==
  \A r \in Calls :
    (call[r].kind = "resume" /\ call[r].seen_reason = "question"
     /\ call[r].pc = "done") => call[r].turns >= 1


FinishedFuture(a) == futures[a].state \in {"result", "exception", "cancelled"}

\* C11: a question whose wait expired makes the question tool return the
\* timeout result, and once ask_questions has returned (answer, rejection
\* or timeout) its entry is no longer in the pending table.
C11_TimeoutResult ==
  \A c \in Calls :
    /\ futures[c].state = "cancelled" => call[c].result = "timeout"
    /\ (FinishedFuture(c) /\ call[c].pc # "q_wait") =>
         pending_questions[futures[c].rid] # c


Published(type) == \E i \in 1..Len(bus) : bus[i].type = type

\* C12: a reply that matched a pending request has published
\* question.replied, a rejection that matched has published
\* question.rejected, and neither event is on the bus otherwise.
C12_ReplyEvents ==
  /\ (\E a \in Askers : futures[a].state = "result")
       <=> Published("question.replied")
  /\ (\E a \in Askers : futures[a].state = "exception")
       <=> Published("question.rejected")


\* the step publishes question.asked for the ask of a
AsksNow(a) ==
  /\ Len(bus') > Len(bus)
  /\ bus'[Len(bus')].type = "question.asked"
  /\ bus'[Len(bus')].call = a

Denied(c) ==
  /\ call[c].pc = "tr_yield"
  /\ is_tool_allowed(agent, call[c].tc.name) = "deny"

\* C14: a denied tool call is answered with a synthetic tool_result chunk
\* and is persisted like a tool that was not found: the assistant message
\* holds a tool_call part with tool_status error and, after it, a
\* tool_result part for the same tool_call_id.
C14_DenyPersisted ==
  \A c \in Calls :
    Denied(c) =>
      /\ out[c][Len(out[c])].type = "tool_result"
      /\ \E i, j \in 1..Len(messages[call[c].msg].parts) :
           LET parts == messages[call[c].msg].parts
           IN /\ i < j
              /\ parts[i].type = "tool_call"
              /\ parts[i].tool_call_id = call[c].tc.id
              /\ parts[i].tool_status = "error"
              /\ parts[j].type = "tool_result"
              /\ parts[j].tool_call_id = call[c].tc.id


\* entries of the agent's list that apply to the tool just looked up
Matching ==
  { i \in 1..Len(agent.permissions) :
      \/ agent.permissions[i].tool_name = "*"
      \/ agent.permissions[i].tool_name = permission.tool_name }

\* C15: is_tool_allowed(agent, t) is the action of the last entry whose
\* tool_name is t or "*", and allow when no entry matches.
C15_LastMatchWins ==
  permission # NoPermission =>
    IF Matching = {} THEN permission.result = "allow"
    ELSE \E i \in Matching :
           /\ \A j \in Matching : j <= i
           /\ permission.result = agent.permissions[i].action

\* a later "*" entry overrides an earlier entry for the tool itself
C15_Witness ==
  /\ agent.permissions = << [tool_name |-> "ls", action |-> "deny"],
                            [tool_name |-> "*", action |-> "ask"] >>
  /\ permission = [tool_name |-> "ls", result |-> "ask"]


AdapterChunkTypes == { adapter.chunks[i][1] : i \in 1..Len(adapter.chunks) }

\* C16: whenever an adapter has emitted a tool_call chunk in a stream, the
\* done chunk of that stream carries stop_reason = tool_calls, whatever
\* native finish reason the backend reported.
C16_StopReasonOverride ==
  (adapter.streamed /\ "tool_call" \in AdapterChunkTypes) =>
    \A i \in 1..Len(adapter.chunks) :
      adapter.chunks[i][1] = "done" => adapter.chunks[i][2] = "tool_calls"

\* C17: no exception leaves an adapter's stream: a failure of the backend
\* call, at any point and also in the retry without thinking, ends the
\* stream with an error chunk as its last chunk.
C17_NoEscape ==
  adapter.streamed =>
    /\ adapter.raised = "none"
    /\ \A i \in 1..Len(adapter.chunks) :
         adapter.chunks[i] = AError => i = Len(adapter.chunks)

\* the callbacks Bus.publish called for publication k, in call order
Invoked(k) ==
  SelectSeq(pubsub.log, LAMBDA e : e.pub = k.pub /\ e.seq = k.seq)

\* a is to be called before b: typed before firehose, then by subscription
CalledBefore(a, b) ==
  \/ pubsub.handlers[a].topic # "*" /\ pubsub.handlers[b].topic = "*"
  \/ /\ (pubsub.handlers[a].topic = "*") = (pubsub.handlers[b].topic = "*")
     /\ a < b

Finished == { pubsub.finished[i] : i \in 1 .. Len(pubsub.finished) }

\* C18: a finished publish has called its callbacks one after another in
\* subscription order, those of the event type before the firehose ones,
\* and every callback that stayed subscribed during the publish was called,
\* also after a callback that raised; the events of one publisher reach
\* each subscriber in publish order.
C18_Delivery ==
  /\ \A k \in Finished :
        LET inv == Invoked(k)
        IN /\ \A i, j \in 1 .. Len(inv) :
                i < j => CalledBefore(inv[i].handler, inv[j].handler)
           /\ \A h \in k.expected : \E i \in 1 .. Len(inv) : inv[i].handler = h
  /\ \A i, j \in 1 .. Len(pubsub.log) :
        (/\ i < j
         /\ pubsub.log[i].pub = pubsub.log[j].pub
         /\ pubsub.log[i].handler = pubsub.log[j].handler)
        => pubsub.log[i].seq < pubsub.log[j].seq

IsToolEvent(e, c, status) ==
  e.type = "tool.state.changed" /\ e.call = c /\ e.status \in status

\* the tool.state.changed events call c has published with such a status
ToolEvents(b, c, status) == SelectSeq(b, LAMBDA e : IsToolEvent(e, c, status))

\* tool_result chunks of tool calls that passed the permission check
Dispatched(ch) == ch.type = "tool_result" /\ ch.text # "denied"

NDispatched(o) == Len(SelectSeq(o, Dispatched))

\* ch is the tool_call chunk of tool call tc
IsCallChunk(ch, tc) ==
  ch.type = "tool_call" /\ ch.name = tc.name /\ ch.args = tc.args

\* C19: the tool_call chunk is with the consumer before the execution of a
\* dispatched tool call starts, its tool_result chunk is emitted only after
\* the execution has returned, and on the bus running comes before
\* completed or error for the same part.
C19_ChunkOrder ==
  /\ [][\A c \in Calls :
          Len(ToolEvents(bus', c, {"running"}))
            > Len(ToolEvents(bus, c, {"running"}))
          => /\ out[c] # <<>>
             /\ IsCallChunk(out[c][Len(out[c])], call[c].tc)]_vars
  /\ [][\A c \in Calls :
          NDispatched(out'[c]) > NDispatched(out[c])
          => /\ call[c].pc \in {"tc_yield", "q_wait"}
             /\ Len(out'[c]) > 1
             /\ IsCallChunk(out'[c][Len(out'[c]) - 1], call[c].tc)
             /\ \E i \in 1 .. Len(bus') :
                   /\ IsToolEvent(bus'[i], c, {"completed", "error"})
                   /\ bus'[i].part = <<call[c].msg, call[c].tool_part>>]_vars
  /\ [](\A c \in Calls :
          call[c].pc = "q_wait"
          => /\ IsCallChunk(out[c][Len(out[c])], call[c].tc)
             /\ \A i \in 1 .. Len(bus) :
                   bus[i].part = <<call[c].msg, call[c].tool_part>>
                   => ~IsToolEvent(bus[i], c, {"completed", "error"}))
  /\ [](\A i \in 1 .. Len(bus) :
          bus[i].type = "tool.state.changed"
            /\ bus[i].status \in {"completed", "error"}
          => \E j \in 1 .. i - 1 :
               /\ bus[j].type = "tool.state.changed"
               /\ bus[j].status = "running"
               /\ bus[j].part = bus[i].part)

\* a question call was answered: its chunks and both its events are out
C19_Witness ==
  \E c \in Calls :
    /\ call[c].pc = "tr_yield"
    /\ call[c].tc.name = "question"
    /\ call[c].result = "answered Y"
    /\ Len(out[c]) > 1
    /\ IsCallChunk(out[c][Len(out[c]) - 1], call[c].tc)
    /\ Dispatched(out[c][Len(out[c])])
    /\ Len(ToolEvents(bus, c, {"completed"})) > 0

\* the tool_call parts of the stored messages, as <<message, part>> indices
ToolCallParts(msgs) ==
  UNION { { <<m, i>> : i \in { j \in 1 .. Len(msgs[m].parts) :
                                 msgs[m].parts[j].type = "tool_call" } } :
          m \in 1 .. Len(msgs) }

StatusOf(msgs, mi) == msgs[mi[1]].parts[mi[2]].tool_status

Forward(a, b) ==
  \/ a = b
  \/ a = "pending" /\ b = "running"
  \/ a = "running" /\ b \in {"completed", "error"}

\* C20: a stored tool_call part stays a tool_call part and its tool_status
\* only moves pending -> running -> completed or error: a completed or
\* error part never changes and running never goes back to pending.
C20_StatusForward ==
  /\ [][\A mi \in ToolCallParts(messages) :
          /\ mi \in ToolCallParts(messages')
          /\ Forward(StatusOf(messages, mi), StatusOf(messages', mi))]_vars
  /\ [](\A mi \in ToolCallParts(messages) :
          StatusOf(messages, mi)
            \in {"pending", "running", "completed", "error"})

\* a part has reached completed while a later part of the same message,
\* dispatched after it, is still running
C20_Witness ==
  \E mi, mj \in ToolCallParts(messages) :
    /\ mi[1] = mj[1]
    /\ mi[2] < mj[2]
    /\ StatusOf(messages, mi) = "completed"
    /\ StatusOf(messages, mj) = "running"

\* the text parts of the stored messages, as <<message, part>> indices
TextParts(msgs) ==
  UNION { { <<m, i>> : i \in { j \in 1 .. Len(msgs[m].parts) :
                                 msgs[m].parts[j].type = "text" } } :
          m \in 1 .. Len(msgs) }

ContentOf(msgs, mi) == msgs[mi[1]].parts[mi[2]].content

IsPrefix(a, b) == Len(a) <= Len(b) /\ SubSeq(b, 1, Len(a)) = a

\* a later part was appended to the message, or its turn is over
Sealed(mi) ==
  \/ mi[2] < Len(messages[mi[1]].parts)
  \/ ~\E c \in Calls :
        /\ call[c].msg = mi[1]
        /\ call[c].pc \in {"stream", "tc_yield", "q_wait", "tr_yield"}

\* C21: the content of a text part only grows by appending, and once the
\* part is sealed (a later part was appended to its message, or the message
\* has finished) its content never changes again.
C21_SealedFrozen ==
  [][\A mi \in TextParts(messages) :
       /\ mi \in TextParts(messages')
       /\ IsPrefix(ContentOf(messages, mi), ContentOf(messages', mi))
       /\ Sealed(mi) => ContentOf(messages', mi) = ContentOf(messages, mi)]_vars

\* a < b for two strings of digits, as Python compares str
RECURSIVE LexLess(_, _)
LexLess(a, b) ==
  IF b = <<>> THEN FALSE
  ELSE IF a = <<>> THEN TRUE
  ELSE IF Head(a) # Head(b) THEN Head(a) < Head(b)
  ELSE LexLess(Tail(a), Tail(b))

\* C23: of two identifiers minted with the same prefix, the one minted
\* first is lexicographically smaller, also within one millisecond.
C23_Monotonic ==
  \A i, j \in 1 .. Len(store.minted) :
    (i < j /\ store.minted[i].prefix = store.minted[j].prefix)
    => LexLess(store.minted[i].ulid, store.minted[j].ulid)

StoredMessages == { k \in DOMAIN store.data : k[1] = "message" }

\* C22: the parts Message.get returns for an assistant message are in the
\* order of the add_part calls, and their ids ascend strictly in that order.
C22_PartOrder ==
  \A key \in StoredMessages :
    get(store, key).role = "assistant"
    => LET parts == get(store, key).parts
       IN \A i, j \in 1 .. Len(parts) :
            i < j => /\ parts[i].n < parts[j].n
                     /\ LexLess(parts[i].id.ulid, parts[j].id.ulid)

LogIndex == 1 .. Len(store.log)

\* the operation a log entry belongs to
OpName(e) ==
  LET i == CHOOSE j \in LogIndex :
             store.log[j].op = e.op /\ store.log[j].kind = "call"
  IN store.log[i].name

MessageOps ==
  {"create_user", "create_assistant", "add_part", "update_part", "set_usage",
   "set_error", "set_finish", "delete"}

EventOf(name) ==
  IF name \in {"add_part", "update_part"} THEN "part.updated"
  ELSE IF name = "delete" THEN "message.removed"
  ELSE "message.updated"

\* C24: every storage write or removal of a Message Store operation is
\* followed by the publish of the operation's event, and the operation
\* publishes nothing before its write.
C24_PublishAfterWrite ==
  \A i \in LogIndex :
    LET e == store.log[i]
    IN (e.kind \in {"write", "remove"} /\ OpName(e) \in MessageOps)
       => /\ \E j \in LogIndex :
               /\ j > i
               /\ store.log[j].op = e.op
               /\ store.log[j].kind = "publish"
               /\ store.log[j].name = EventOf(OpName(e))
          /\ \A j \in LogIndex :
               (store.log[j].op = e.op /\ store.log[j].kind = "publish")
               => j > i

\* the last operation of st was Session.delete(s) and it returned
Deleted(st, s) ==
  /\ st.log # <<>>
  /\ st.log[Len(st.log)].kind = "publish"
  /\ st.log[Len(st.log)].name = "session.deleted"
  /\ st.log[Len(st.log)].key = <<"session", s>>

\* C25: when Session.delete(s) has returned, storage holds no key of s
\* (session record, messages, todo list), every key of another session is
\* as before, and session.deleted was published after the removals.
C25_DeleteCascades ==
  [][\A s \in Sessions :
       (store'.ops > store.ops /\ Deleted(store', s))
       => /\ \A k \in DOMAIN store'.data : k[2] # s
          /\ \A k \in DOMAIN store.data :
               k[2] # s => /\ k \in DOMAIN store'.data
                           /\ store'.data[k] = store.data[k]
          /\ DOMAIN store'.data \subseteq DOMAIN store.data
          /\ \A j \in 1 .. Len(store'.log) - 1 :
               store'.log[j].op = store'.ops
               => store'.log[j].kind \in {"call", "remove"}]_vars

\* C26: once every prompt call of the session has finished, neither a loop
\* state nor a Session Processor is registered for the session.
C26_NothingRegistered ==
  (\A c \in Calls : call[c].pc \in {"idle", "done"})
  => loop_states = 0 /\ processors = 0

\* the user messages of a log, and the one that opens the second turn from
\* the end (0 when the log has fewer than two turns)
UserIndexes(msgs) == { i \in 1 .. Len(msgs) : msgs[i].role = "user" }

SecondLatestUser(msgs) ==
  IF Cardinality(UserIndexes(msgs)) < 2 THEN 0
  ELSE CHOOSE i \in UserIndexes(msgs) :
         Cardinality({ j \in UserIndexes(msgs) : j > i }) = 1

\* the newest summary message older than the latest two turns (0 if none)
SummaryBoundary(msgs) ==
  LET S == { i \in 1 .. Len(msgs) :
               /\ i < SecondLatestUser(msgs)
               /\ msgs[i].role = "assistant"
               /\ msgs[i].summary }
  IN IF S = {} THEN 0 ELSE CHOOSE i \in S : \A j \in S : j <= i

\* the places << message, part >> of a log
Places(msgs) ==
  UNION { { << m, p >> : p \in 1 .. Len(msgs[m].parts) } :
            m \in 1 .. Len(msgs) }

\* the prunable tool_result parts: older than the latest two turns, newer
\* than the summary, not of a protected tool and not pruned yet
Prunable(msgs) ==
  { x \in Places(msgs) :
      LET part == msgs[x[1]].parts[x[2]]
      IN /\ x[1] < SecondLatestUser(msgs)
         /\ x[1] > SummaryBoundary(msgs)
         /\ part.type = "tool_result"
         /\ part.tool_name \notin PRUNE_PROTECTED_TOOLS
         /\ ~part.tool_output.pruned }

\* x is scanned no later than y when the log is read from its newest part
ScannedBy(x, y) == x[1] > y[1] \/ (x[1] = y[1] /\ x[2] >= y[2])

RECURSIVE Tokens(_, _)
Tokens(msgs, X) ==
  IF X = {} THEN 0
  ELSE LET x == CHOOSE y \in X : TRUE
       IN estimate(msgs[x[1]].parts[x[2]].tool_output)
          + Tokens(msgs, X \ {x})

\* the prunable parts beyond the protected window
Beyond(msgs) ==
  { x \in Prunable(msgs) :
      Tokens(msgs, { y \in Prunable(msgs) : ScannedBy(y, x) }) > 40000 }

\* the log with the parts at the places X pruned
Marked(msgs, X) ==
  [m \in 1 .. Len(msgs) |->
     [msgs[m] EXCEPT
        !.parts = [p \in 1 .. Len(msgs[m].parts) |->
                     IF << m, p >> \in X
                     THEN [msgs[m].parts[p] EXCEPT
                             !.tool_output = [pruned |-> TRUE, len |-> 8]]
                     ELSE msgs[m].parts[p]]]]

\* C27: a call of prune leaves the log as it is when the prunable
\* tool_result parts beyond the 40 000-token protected window (scanned from
\* the newest, outside the latest two turns) sum to at most 20 000 tokens;
\* when they sum to more, exactly those parts get the output "[pruned]" and
\* prune returns their count and the tokens saved.
C27_PruneMinimum ==
  [][compaction'.op = "prune"
     => LET B == Beyond(compaction.messages)
            saved == Tokens(compaction.messages, B)
        IN IF saved <= 20000
           THEN compaction'.messages = compaction.messages
           ELSE /\ compaction'.messages = Marked(compaction.messages, B)
                /\ compaction'.result =
                     [type |-> "PruneResult", pruned_count |-> Cardinality(B),
                      tokens_saved |-> saved]]_vars

\* C28: a call of prune leaves every message of the two most recent turns
\* (from the user message that opens the second turn from the end on, or
\* the whole log when it has fewer turns) with every part as it was, and a
\* log of at most two turns is left unchanged, with nothing returned.
C28_RecentTurnsKept ==
  [][compaction'.op = "prune"
     => LET old == compaction.messages
            new == compaction'.messages
        IN /\ Len(new) = Len(old)
           /\ \A i \in 1 .. Len(old) :
                i >= SecondLatestUser(old) => new[i] = old[i]
           /\ Cardinality(UserIndexes(old)) <= 2
              => new = old /\ compaction'.result = [type |-> "None"]]_vars

\* prune has marked a part of an older turn and returned its result while
\* the two most recent turns hold a tool output of their own
C28_Witness ==
  /\ compaction.op = "prune"
  /\ compaction.result.type = "PruneResult"
  /\ \E x \in Places(compaction.messages) :
       /\ x[1] > SecondLatestUser(compaction.messages)
       /\ compaction.messages[x[1]].parts[x[2]].type = "tool_result"
       /\ ~compaction.messages[x[1]].parts[x[2]].tool_output.pruned
  /\ \E x \in Places(compaction.messages) :
       /\ x[1] < SecondLatestUser(compaction.messages)
       /\ compaction.messages[x[1]].parts[x[2]].tool_output.pruned

\* the tool_result parts that did not come from a protected tool and are
\* open to pruning: the tool is the one of the call the part answers
PrunableByTool(msgs) ==
  { x \in Places(msgs) :
      LET part == msgs[x[1]].parts[x[2]]
      IN /\ x[1] < SecondLatestUser(msgs)
         /\ x[1] > SummaryBoundary(msgs)
         /\ part.type = "tool_result"
         /\ part.tool # "skill"
         /\ ~part.tool_output.pruned }

C30_CompactFallback ==
  [][compaction'.op = "compact" /\ Len(compaction.messages) > 0
     => LET old == compaction.messages
            new == compaction'.messages
            n == Len(compaction.messages)
        IN /\ compaction'.provider = "none"
              => compaction'.result = [type |-> "None"] /\ new = old
           /\ compaction'.provider = "error"
              => /\ compaction'.result.type = "CompactionResult"
                 /\ compaction'.result.summary.header =
                      << "[Conversation Summary - ", n, " messages]" >>
                 /\ Len(new) = n + 1
                 /\ SubSeq(new, 1, n) = old
                 /\ new[n + 1].role = "assistant"
                 /\ new[n + 1].summary
                 /\ Len(new[n + 1].parts) = 1
                 /\ new[n + 1].parts[1].type = "text"
                 /\ new[n + 1].parts[1].content =
                      compaction'.result.summary]_vars

\* n / 4 rounded to the nearest integer, a half to the even neighbour: 0
\* for 0, n for 4n, 2 for 10, 3 for 11 and 12
Estimated(len) ==
  IF len % 4 = 0 THEN len \div 4
  ELSE IF len % 4 = 1 THEN len \div 4
  ELSE IF len % 4 = 3 THEN len \div 4 + 1
  ELSE IF (len \div 4) % 2 = 0 THEN len \div 4 ELSE len \div 4 + 1

RECURSIVE SumEstimated(_, _)
SumEstimated(msgs, X) ==
  IF X = {} THEN 0
  ELSE LET x == CHOOSE y \in X : TRUE
           part == msgs[x[1]].parts[x[2]]
           own == IF part.type \in {"text", "reasoning"}
                  THEN Estimated(part.content.len)
                  ELSE IF part.type = "tool_call"
                  THEN Estimated(part.tool_name.len)
                       + Estimated(part.tool_args.json.len)
                  ELSE Estimated(part.tool_output.len)
       IN own + SumEstimated(msgs, X \ {x})

RECURSIVE SumContents(_, _)
SumContents(msgs, M) ==
  IF M = {} THEN 0
  ELSE LET m == CHOOSE y \in M : TRUE
       IN Estimated(msgs[m].content.len) + SumContents(msgs, M \ {m})

PartsOfType(msgs, types) ==
  { x \in Places(msgs) :
      /\ msgs[x[1]].role = "assistant"
      /\ msgs[x[1]].parts[x[2]].type \in types }

StreamedText(c) ==
  LET ts == SelectSeq(out[c], LAMBDA ch : ch.type = "text" /\ ch.src = "provider")
  IN [i \in 1 .. Len(ts) |-> ts[i].text]

MessagesOf(c, role) ==
  { m \in 1 .. Len(messages) :
      messages[m].call = c /\ messages[m].role = role }

TextPartsOf(c) ==
  { mi \in TextParts(messages) : messages[mi[1]].call = c }

\* what a finished single turn that opened its provider stream leaves
\* behind: one stream, one user and one assistant message, one text part
\* holding the streamed text
OneStreamedTurn(c) ==
  /\ call[c].streams = 1
  /\ \E u \in MessagesOf(c, "user") :
       /\ MessagesOf(c, "user") = {u}
       /\ messages[u].content = call[c].content
  /\ \E a \in MessagesOf(c, "assistant") :
       /\ MessagesOf(c, "assistant") = {a}
       /\ IF StreamedText(c) = <<>>
          THEN TextPartsOf(c) = {}
          ELSE \E mi \in TextPartsOf(c) :
                 /\ TextPartsOf(c) = {mi}
                 /\ mi[1] = a
                 /\ ContentOf(messages, mi) = StreamedText(c)

NoStepOutput(c) ==
  /\ call[c].turns = 1
  /\ ~\E i \in 1 .. Len(bus) :
        bus[i].call = c /\ bus[i].type \in {"step.started", "step.finished"}
  /\ ~\E i \in 1 .. Len(out[c]) : out[c][i] = StepChunk

SingleDone(c) == call[c].kind = "single" /\ call[c].pc = "done"

\* C32 as stated: every finished prompt with auto_continue = false has run
\* one turn that opened exactly one provider stream, published no step
\* event, appended one user and one assistant message, and holds all its
\* text chunks in exactly one text part, in order.
C32_Original ==
  \A c \in Calls : SingleDone(c) => NoStepOutput(c) /\ OneStreamedTurn(c)

\* C32: a finished prompt with auto_continue = false has run exactly one
\* turn and published no step event.  When a provider is registered for it,
\* the turn opened exactly one stream, appended one user message with the
\* content and one assistant message, and all text chunks of the stream are
\* in exactly one text part, concatenated in order; when none is
\* registered, the turn yielded the single error chunk, opened no stream
\* and appended no message.
C32_SingleTurn ==
  \A c \in Calls :
    SingleDone(c) =>
      /\ NoStepOutput(c)
      /\ IF env.provider
         THEN OneStreamedTurn(c)
         ELSE /\ call[c].streams = 0
              /\ out[c] = <<ProviderNotFound>>
              /\ \A m \in 1 .. Len(messages) : messages[m].call # c

\* a finished single turn whose stream carried text before and after a
\* tool call
C32_Witness ==
  \E c \in Calls :
    /\ SingleDone(c) /\ env.provider
    /\ Len(StreamedText(c)) >= 2
    /\ \E i \in 1 .. Len(out[c]) : out[c][i].type = "tool_result"

\* an error chunk of a turn: the provider's, or the missing provider's
IsTurnError(ch) == ch.type = "error" /\ ch.src \in {"provider", "turn"}

\* C33: in loop mode, once a step's turn has ended with an error chunk the
\* loop starts no further step for that prompt: nothing of a later step (its
\* step chunk, a provider chunk, another turn error) follows the error
\* chunk in the prompt's output.
C33_ErrorEndsLoop ==
  \A c \in LoopCalls :
    \A i \in 1 .. Len(out[c]) :
      IsTurnError(out[c][i]) =>
        \A j \in i + 1 .. Len(out[c]) :
          /\ out[c][j] # StepChunk
          /\ out[c][j].src \notin {"provider", "turn"}

\* a loop-mode call leaves the end of a step
StepEnds(c) ==
  /\ call[c].kind = "loop" /\ call[c].pc = "turn_end"
  /\ call'[c].pc # "turn_end"

\* the step ended with the doom-loop warning
DoomBreak(c) == out'[c] = Append(out[c], TextChunk("loop", "doom_loop"))

\* a loop-mode call starts a step
StepStarts(c) ==
  /\ call[c].kind = "loop" /\ call[c].pc = "head"
  /\ call'[c].pc \in {"stream", "turn_end"}

CanRemind(c) ==
  todos /\ states[c].todo_reminder_count < states[c].max_todo_reminders

Reminded(c) ==
  /\ states'[c].todo_reminder_count = states[c].todo_reminder_count + 1
  /\ states'[c].pending_reminder
  /\ call'[c].pc = "head"

Broke(c) == call'[c].pc = "exit" /\ states'[c] = states[c]

ReminderMessages(c) ==
  { m \in MessagesOf(c, "user") : messages[m].content = "reminder" }

\* C34 as stated: every step that ends with stop_reason other than
\* tool_calls either takes a reminder (todos pending, count below the
\* maximum) or breaks the loop, and a reminder that was taken is always
\* delivered: no prompt call finishes with pending_reminder still set.
C34_Original ==
  /\ [][\A c \in Calls :
          StepEnds(c) /\ states[c].stop_reason # "tool_calls" =>
            IF CanRemind(c) THEN Reminded(c) ELSE Broke(c)]_vars
  /\ [](\A c \in LoopCalls :
          call[c].pc = "done" => ~states[c].pending_reminder)

\* C34: when a step of a loop-mode prompt ends with stop_reason other than
\* tool_calls and without the doom-loop break: if a todo is pending and
\* todo_reminder_count < max_todo_reminders, the counter is incremented,
\* pending_reminder is set and the loop goes back to its test; otherwise
\* the loop breaks with its state unchanged.  A step that starts with
\* pending_reminder set clears it and, when a provider is registered,
\* appends a user message with the reminder text followed by the
\* assistant message.  At most max_todo_reminders reminder user messages
\* exist per prompt call.
C34_TodoReminders ==
  /\ [][\A c \in Calls :
          /\ StepEnds(c) /\ ~DoomBreak(c)
               /\ states[c].stop_reason # "tool_calls" =>
                IF CanRemind(c) THEN Reminded(c) ELSE Broke(c)
          /\ StepStarts(c) /\ states[c].pending_reminder =>
                /\ ~states'[c].pending_reminder
                /\ states'[c].todo_reminder_count =
                     states[c].todo_reminder_count
                /\ env.provider =>
                     messages' = messages \o << UserMessage(c, "reminder"),
                                                AssistantMessage(c) >>]_vars
  /\ [](\A c \in LoopCalls :
          /\ Cardinality(ReminderMessages(c)) <= MaxTodoReminders
          /\ Cardinality(ReminderMessages(c)) <=
               states[c].todo_reminder_count)

\* a prompt call that finished after both reminders were delivered
C34_Witness ==
  \E c \in LoopCalls :
    /\ call[c].pc = "done"
    /\ Cardinality(ReminderMessages(c)) = MaxTodoReminders
    /\ states[c].todo_reminder_count = MaxTodoReminders
    /\ ~states[c].pending_reminder

\* the tool_call parts of the messages of a call whose execution is over
SettledCalls(c) ==
  { mi \in ToolCallParts(messages) :
      /\ messages[mi[1]].call = c
      /\ ~(/\ call[c].msg = mi[1] /\ call[c].tool_part = mi[2]
           /\ call[c].pc \in {"tc_yield", "q_wait"}) }

\* the tool_result parts that answer a tool_call part
ResultsOf(mi) ==
  { j \in 1 .. Len(messages[mi[1]].parts) :
      /\ messages[mi[1]].parts[j].type = "tool_result"
      /\ messages[mi[1]].parts[j].tool_call_id =
           messages[mi[1]].parts[mi[2]].tool_call_id }

ResultPartsOf(c) ==
  { mj \in UNION { { <<m, j>> : j \in 1 .. Len(messages[m].parts) } :
                    m \in 1 .. Len(messages) } :
      /\ messages[mj[1]].call = c
      /\ messages[mj[1]].parts[mj[2]].type = "tool_result" }

\* the tool_result chunks a call yielded for executed tool calls (the chunk
\* of a denied call is yielded by the permission check)
ResultChunks(c) ==
  { i \in 1 .. Len(out[c]) :
      out[c][i].type = "tool_result" /\ out[c][i].text # "denied" }

\* outputs of an execute that returned a result
Returned == {"ok", "answered Y", "answered N", "rejected", "timeout"}

\* what the parts and chunks of the executed tool calls of a call look
\* like, given the outputs an unknown tool name may end with
ExecutedOnce(c, unknown) ==
  /\ \A mi \in SettledCalls(c) :
       LET part == messages[mi[1]].parts[mi[2]]
       IN \E j \in ResultsOf(mi) :
            /\ ResultsOf(mi) = {j}
            /\ j > mi[2]
            /\ LET output == messages[mi[1]].parts[j].content
               IN /\ part.tool_status \in {"completed", "error"}
                  /\ part.tool_status = "completed" <=>
                       /\ part.tool_name \in RegisteredTools
                       /\ output \in Returned
                  /\ part.tool_name \notin RegisteredTools =>
                       output \in unknown
                  /\ part.tool_status = "error" =>
                       output \in {"not_found", "raised", "doom"}
  /\ Cardinality(ResultPartsOf(c)) = Cardinality(SettledCalls(c))
  /\ \A o \in Returned \cup {"not_found", "raised", "doom"} :
       Cardinality({ i \in ResultChunks(c) : out[c][i].text = o }) =
       Cardinality({ mj \in ResultPartsOf(c) :
                       ContentOf(messages, mj) = o })

\* C35 as stated: every executed tool call has exactly one tool_result
\* part and chunk, is completed exactly when the tool was found and execute
\* returned, and an unknown tool name always gives the 'not found' output.
C35_Original == \A c \in Calls : ExecutedOnce(c, {"not_found"})

\* C35: every tool call that passed the permission check and whose
\* execution is over has exactly one tool_result part, persisted after
\* it, and one tool_result chunk with the same output; its tool_call part
\* is completed exactly when the tool is registered and execute returned a
\* result, and error otherwise: an exception in execute gives the 'Error
\* executing tool' output, and an unknown tool the 'not found' output
\* unless the doom-loop detector refused the call first.
C35_OneResult == \A c \in Calls : ExecutedOnce(c, {"not_found", "doom"})

\* one prompt called an unknown tool until the detector refused the call:
\* 'not found' results first, then the doom-loop result
C35_Witness ==
  \E c \in Calls :
    \E a, b \in SettledCalls(c) :
      /\ messages[a[1]].parts[a[2]].tool_name \notin RegisteredTools
      /\ messages[b[1]].parts[b[2]].tool_name \notin RegisteredTools
      /\ StatusOf(messages, a) = "error" /\ StatusOf(messages, b) = "error"
      /\ \E j \in ResultsOf(a) :
           messages[a[1]].parts[j].content = "not_found"
      /\ \E j \in ResultsOf(b) :
           messages[b[1]].parts[j].content = "doom"

\* C36: the subscriber tables do not change under a publish in progress:
\* a finished publish has invoked every callback that was subscribed when
\* it started and was still subscribed when it ended, and has invoked no
\* callback twice.
C36_TablesProtected ==
  \A k \in Finished :
    LET inv == Invoked(k)
    IN /\ \A h \in k.expected :
            Cardinality({ i \in 1 .. Len(inv) : inv[i].handler = h }) = 1
       /\ \A i, j \in 1 .. Len(inv) :
            i < j => inv[i].handler # inv[j].handler

\* an ask that is waiting for its answer
Waiting(a) ==
  /\ IF a = OtherSession THEN otherPc = "q_wait" ELSE call[a].pc = "q_wait"
  /\ futures[a].state = "pending"

\* C37: pending questions of different sessions do not interfere: every
\* ask that is waiting for its answer keeps its own entry in the pending
\* table, whatever another session asks, answers or gives up meanwhile.
C37_OwnEntry ==
  \A a \in Askers : Waiting(a) => pending_questions[futures[a].rid] = a

\* the detector refused a tool call of the prompt: the i-th chunk is the
\* 'Doom loop detected' result
DoomRefusal(c, i) == out[c][i] = ToolResultChunk("doom")

\* C38: once the doom-loop detector has refused a tool call during a step
\* of a loop-mode prompt, the loop starts no further step, and when the
\* prompt has left the loop the warning chunk follows the refusal and the
\* processor's last step has status doom_loop.
C38_DoomEndsLoop ==
  \A c \in LoopCalls :
    \A i \in 1 .. Len(out[c]) :
      DoomRefusal(c, i) =>
        /\ \A j \in i + 1 .. Len(out[c]) : out[c][j] # StepChunk
        /\ call[c].pc \in {"exit", "done"} =>
             /\ \E j \in i + 1 .. Len(out[c]) : out[c][j] = DoomWarning
             /\ LET steps == procs[call[c].proc].steps
                IN steps[Len(steps)].status = "doom_loop"

\* C39: prune is idempotent: in the state a prune has left, a prune called
\* again, with no message or part added in between, leaves the log as it
\* is and returns nothing.
C39_PruneIdempotent ==
  compaction.op = "prune" =>
    LET again == prune(compaction)
    IN /\ again.messages = compaction.messages
       /\ again.result = None

\* the state a prune leaves when it follows a prune that had marked the
\* outputs beyond the protected window: nothing returned, the marked parts
\* in the log, and unmarked prunable outputs left inside the window
C39_Witness ==
  /\ compaction.op = "prune"
  /\ compaction.result = None
  /\ \E x \in Places(compaction.messages) :
       /\ compaction.messages[x[1]].parts[x[2]].type = "tool_result"
       /\ compaction.messages[x[1]].parts[x[2]].tool_output.pruned
  /\ Prunable(compaction.messages) # {}

\* Session.delete(s) has returned at some point: it has published
\* session.deleted
DeleteReturned(st, s) ==
  \E i \in 1 .. Len(st.log) :
    /\ st.log[i].kind = "publish"
    /\ st.log[i].name = "session.deleted"
    /\ st.log[i].key = <<"session", s>>

====
